---- MODULE Spec2Model ----
(***************************************************************************)
(* A model of the J interpreter prototype: the lexer (Lexer::tokenize),    *)
(* the parser (Parser::parse), the tree-walking evaluator                  *)
(* (Interpreter::evaluate) and the tensor kernels (JTensor, TFSession).    *)
(*                                                                         *)
(* Characters are one-character strings, source text is a sequence of      *)
(* characters, lexemes are strings.  Numbers are exact rationals <<n, d>>  *)
(* (d > 0, lowest terms); an INT64 element has d = 1.                      *)
(***************************************************************************)
EXTENDS Integers, Sequences, FiniteSets, TLC

VARIABLES
    \* ---- Lexer object (src/src/lexer/lexer.hpp)
    m_source,           \* the source text, a sequence of characters
    m_current_pos,      \* 0-based offset of the next character
    m_current_line,     \* 1-based line counter
    m_line_start_pos,   \* offset of the first character of the current line
    tokens,             \* the token vector built by tokenize()
    spans,              \* per token: <<first offset, offset past the last>> consumed by its scan
    lexPc,              \* "loop" | "done" | "overflow" | "throw"
    \* ---- REPL around one Interpreter (src/app/main.cpp)
    m_environment,      \* Interpreter::m_environment, name -> value
    line,               \* the statement read last (its structure and its text)
    m_current_token_idx,\* Parser::m_current_token_idx once parse has run
    ast,                \* what Parser::parse returned for it
    result,             \* what Interpreter::evaluate returned for it
    outcome,            \* "start" | "value" | "error" | "crash"
    assigned,           \* history: name -> value of the latest `name =: e` evaluated
    \* ---- a direct call of a JTensor factory or TFSession kernel
    kop,                \* the operation called
    kargs,              \* its operands
    kres,               \* its outcome
    \* ---- one TFGraph and one DeferredTensor on it (src/src/interpreter/tf_graph.hpp)
    nodes_,             \* TFGraph::nodes_; the node at index i has the id "node_i", written i
    gPc,                \* "idle" | "build" | "execute" | "returned" | "threw" | "crashed"
    caller,             \* who called TFGraph::execute: "execute" (the user) | "materialize"
    inputs,             \* the input map of the call in progress or last made, id -> tensor
    sorted_indices,     \* the local sorted_indices of TFGraph::execute
    executed,           \* how many entries of sorted_indices the loop of execute has done
    results,            \* the local results of TFGraph::execute, id -> tensor or nullptr
    node_id_,           \* DeferredTensor::node_id_ (-1: no deferred tensor made yet)
    is_materialized_,   \* DeferredTensor::is_materialized_
    materialized_value_,\* DeferredTensor::materialized_value_
    gReturned,           \* what the last call of DeferredTensor::materialize gave back
    calls               \* how many calls of execute and materialize were made

lexVars  == <<m_source, m_current_pos, m_current_line, m_line_start_pos, tokens, spans, lexPc>>
replVars == <<m_environment, line, m_current_token_idx, ast, result, outcome, assigned>>
kernVars == <<kop, kargs, kres>>
graphVars == <<nodes_, gPc, caller, inputs, sorted_indices, executed, results,
               node_id_, is_materialized_, materialized_value_, gReturned, calls>>
vars     == <<lexVars, replVars, kernVars, graphVars>>

(***************************************************************************)
(* Bounds of the model                                                     *)
(***************************************************************************)
MaxSrcLen == 3      \* longest source text the lexer specification enumerates
MaxLit    == 4      \* largest number written in the statements fed to the interpreter
MaxDim    == 2      \* largest dimension of the tensors handed to the kernels directly

(***************************************************************************)
(* Exact rationals                                                         *)
(***************************************************************************)
Abs(n) == IF n < 0 THEN -n ELSE n

\* Body applied to the value of e, with e computed once
Bind(e, Body(_)) == CHOOSE y \in {Body(x) : x \in {e}} : TRUE

RECURSIVE Gcd(_, _)
Gcd(a, b) == IF b = 0 THEN a ELSE Gcd(b, a % b)

Rat(n, d) ==
    LET g == Gcd(Abs(n), Abs(d))
        s == IF d < 0 THEN -1 ELSE 1
    IN  <<(s * n) \div g, (s * d) \div g>>

RInt(n)    == <<n, 1>>
RAdd(a, b) == Rat(a[1] * b[2] + b[1] * a[2], a[2] * b[2])
RSub(a, b) == Rat(a[1] * b[2] - b[1] * a[2], a[2] * b[2])
RMul(a, b) == Rat(a[1] * b[1], a[2] * b[2])
RDiv(a, b) == Rat(a[1] * b[2], a[2] * b[1])
RNeg(a)    == <<-a[1], a[2]>>
RLess(a, b) == a[1] * b[2] < b[1] * a[2]
RIsInt(a)  == a[2] = 1

RECURSIVE Pow10(_)
Pow10(k) == IF k = 0 THEN 1 ELSE 10 * Pow10(k - 1)

(***************************************************************************)
(* Characters (<cctype>)                                                   *)
(***************************************************************************)
NUL == "\\0"    \* what Lexer::peek returns past the end; no source character equals it

Digits == {"0", "1", "2", "3", "4", "5", "6", "7", "8", "9"}
Letters == {"a", "b", "c", "d", "e", "f", "g", "h", "i", "j", "k", "l", "m",
            "n", "o", "p", "q", "r", "s", "t", "u", "v", "w", "x", "y", "z",
            "A", "B", "C", "D", "E", "F", "G", "H", "I", "J", "K", "L", "M",
            "N", "O", "P", "Q", "R", "S", "T", "U", "V", "W", "X", "Y", "Z"}
Spaces == {" ", "\t", "\n", "\r", "\f"}

isdigit(c) == c \in Digits
isalpha(c) == c \in Letters
isalnum(c) == isalpha(c) \/ isdigit(c)
isspace(c) == c \in Spaces

DigitVal(c) == CASE c = "0" -> 0 [] c = "1" -> 1 [] c = "2" -> 2 [] c = "3" -> 3
                 [] c = "4" -> 4 [] c = "5" -> 5 [] c = "6" -> 6 [] c = "7" -> 7
                 [] c = "8" -> 8 [] c = "9" -> 9

RECURSIVE Join(_)
Join(cs) == IF cs = <<>> THEN "" ELSE Head(cs) \o Join(Tail(cs))

RECURSIVE DigitsValue(_, _)
DigitsValue(cs, acc) ==
    IF cs = <<>> THEN acc ELSE DigitsValue(Tail(cs), 10 * acc + DigitVal(Head(cs)))

RECURSIVE DigitRun(_)
DigitRun(cs) ==     \* the longest prefix of cs made of digits
    IF cs # <<>> /\ isdigit(Head(cs)) THEN <<Head(cs)>> \o DigitRun(Tail(cs)) ELSE <<>>

RECURSIVE DropSpaces(_)
DropSpaces(cs) == IF cs # <<>> /\ isspace(Head(cs)) THEN DropSpaces(Tail(cs)) ELSE cs

Drop(cs, k) == SubSeq(cs, k + 1, Len(cs))

\* std::stoll: leading white space, an optional sign, then at least one digit.
stoll(cs) ==
    LET t    == DropSpaces(cs)
        sgn  == IF t # <<>> /\ Head(t) = "-" THEN -1 ELSE 1
        u    == IF t # <<>> /\ Head(t) \in {"-", "+"} THEN Tail(t) ELSE t
        ds   == DigitRun(u)
    IN  IF ds = <<>> THEN [ok |-> FALSE, v |-> RInt(0)]
        ELSE [ok |-> TRUE, v |-> RInt(sgn * DigitsValue(ds, 0))]

\* std::stod: leading white space, an optional sign, digits with an optional
\* point; at least one digit on either side of the point.
stod(cs) ==
    LET t    == DropSpaces(cs)
        sgn  == IF t # <<>> /\ Head(t) = "-" THEN -1 ELSE 1
        u    == IF t # <<>> /\ Head(t) \in {"-", "+"} THEN Tail(t) ELSE t
        ip   == DigitRun(u)
        r    == Drop(u, Len(ip))
        fp   == IF r # <<>> /\ Head(r) = "." THEN DigitRun(Tail(r)) ELSE <<>>
    IN  IF ip = <<>> /\ fp = <<>> THEN [ok |-> FALSE, v |-> RInt(0)]
        ELSE [ok |-> TRUE,
              v  |-> Rat(sgn * (DigitsValue(ip, 0) * Pow10(Len(fp)) + DigitsValue(fp, 0)),
                         Pow10(Len(fp)))]

(***************************************************************************)
(* Tokens (src/src/lexer/token.hpp)                                        *)
(***************************************************************************)
NoLit        == [k |-> "none",  v |-> RInt(0), s |-> <<>>]
IntLit(r)    == [k |-> "int",   v |-> r,       s |-> <<>>]
FloatLit(r)  == [k |-> "float", v |-> r,       s |-> <<>>]
StrLit(cs)   == [k |-> "str",   v |-> RInt(0), s |-> cs]

Token(t, lex, ln, col, lit) ==
    [type |-> t, lexeme |-> lex, line |-> ln, col |-> col, literal_value |-> lit]

(***************************************************************************)
(* Lexer (src/Src/lexer/lexer.cpp)                                         *)
(***************************************************************************)
keywords(lex) ==
    CASE lex = "NB."     -> "COMMENT"
      [] lex = "if."     -> "IF"
      [] lex = "do."     -> "DO"
      [] lex = "else."   -> "ELSE"
      [] lex = "elseif." -> "ELSEIF"
      [] lex = "end."    -> "END"
      [] lex = "select." -> "SELECT"
      [] lex = "case."   -> "CASE"
      [] lex = "while."  -> "WHILE"
      [] lex = "for."    -> "FOR_FRAMENAME"
      [] OTHER           -> "NAME"

\* Lexer::peek at position pos of src
peek(src, pos, offset) ==
    IF pos + offset >= Len(src) THEN NUL ELSE src[pos + offset + 1]

\* Lexer::make_token with a lexeme override, at position pos
make_token(t, lex, pos, ln, lsp) ==
    Token(t, lex, ln, IF lex # "" THEN pos - lsp - Len(lex) + 1 ELSE pos - lsp, NoLit)

make_token_with_literal(t, lex, pos, ln, lsp, lit) ==
    Token(t, lex, ln, pos - lsp - Len(lex) + 1, lit)

\* A scan's outcome: the token, the lexer position after it, and how it ended
\* ("ok", "overflow": unbounded recursion, "throw": an exception leaves tokenize).
Scanned(tok, pos, ln, lsp) == [tok |-> tok, pos |-> pos, line |-> ln, lsp |-> lsp, st |-> "ok"]
Aborted(how, pos, ln, lsp) ==
    [tok |-> Token("UNKNOWN", "", ln, 0, NoLit), pos |-> pos, line |-> ln, lsp |-> lsp, st |-> how]

RECURSIVE SkipWhile(_, _, _)
SkipWhile(src, pos, chars) ==   \* while (peek() in chars) advance();
    IF peek(src, pos, 0) \in chars THEN SkipWhile(src, pos + 1, chars) ELSE pos

RECURSIVE SkipUntil(_, _, _)
SkipUntil(src, pos, chars) ==   \* while (peek() not in chars && !is_at_end()) advance();
    IF pos < Len(src) /\ src[pos + 1] \notin chars THEN SkipUntil(src, pos + 1, chars) ELSE pos

\* Lexer::number, entered with m_current_pos = pos.  before is the character
\* m_source[pos - 1]; at pos = 0 that index wraps and the read is out of bounds,
\* so before is whatever byte the build finds there.
number(src, pos, ln, lsp, before) ==
    LET is_negative_literal == (before = "_")
        wrapped   == (pos = 0) /\ ~is_negative_literal   \* start_pos = SIZE_MAX
        start_pos == IF is_negative_literal THEN pos ELSE pos - 1
        p1        == SkipWhile(src, pos, Digits)
        is_float  == peek(src, p1, 0) = "." /\ isdigit(peek(src, p1, 1))
        p2        == IF is_float THEN SkipWhile(src, p1 + 1, Digits) ELSE p1
        body      == SubSeq(src, start_pos + 1, p2)
        lexcs     == IF is_negative_literal THEN <<"_">> \o body ELSE body
        lexeme    == Join(lexcs)
        val_str   == IF Head(lexcs) = "_" THEN <<"-">> \o Tail(lexcs) ELSE lexcs
        conv      == IF is_float THEN stod(val_str) ELSE stoll(val_str)
    IN  IF wrapped THEN Aborted("throw", p2, ln, lsp)   \* substr(SIZE_MAX, ..): std::out_of_range
        ELSE IF ~conv.ok THEN Scanned(make_token("UNKNOWN", lexeme, p2, ln, lsp), p2, ln, lsp)
        ELSE IF is_float
             THEN Scanned(make_token_with_literal("NOUN_FLOAT", lexeme, p2, ln, lsp, FloatLit(conv.v)),
                          p2, ln, lsp)
             ELSE Scanned(make_token_with_literal("NOUN_INTEGER", lexeme, p2, ln, lsp, IntLit(conv.v)),
                          p2, ln, lsp)

\* Lexer::string_literal, entered after the opening apostrophe
string_literal(src, pos, ln, lsp) ==
    LET start_pos == pos
        p1        == SkipUntil(src, pos, {"'"})
        value     == SubSeq(src, start_pos + 1, p1)
    IN  IF p1 >= Len(src)
        THEN Scanned(make_token("UNKNOWN", Join(SubSeq(src, start_pos, p1)), p1, ln, lsp), p1, ln, lsp)
        ELSE Scanned(make_token_with_literal("NOUN_STRING", Join(SubSeq(src, start_pos, p1 + 1)),
                                             p1 + 1, ln, lsp, StrLit(value)),
                     p1 + 1, ln, lsp)

\* Lexer::identifier_or_keyword, entered after the first character
identifier_or_keyword(src, pos, ln, lsp) ==
    LET start_pos == pos - 1
        p1        == SkipWhile(src, pos, Letters \cup Digits \cup {"_"})
        p2        == IF peek(src, p1, 0) \in {".", ":"} /\ isalnum(src[p1]) THEN p1 + 1 ELSE p1
        lexeme    == Join(SubSeq(src, start_pos + 1, p2))
    IN  Scanned(make_token(keywords(lexeme), lexeme, p2, ln, lsp), p2, ln, lsp)

\* Lexer::comment, entered after "NB."
comment(src, pos, ln, lsp) ==
    LET start_pos == pos - 3
        p1        == SkipUntil(src, pos, {"\n"})
    IN  Scanned(make_token("COMMENT", Join(SubSeq(src, start_pos + 1, p1)), p1, ln, lsp), p1, ln, lsp)

VerbChars == {"+", "-", "*", "%", "#", "<", ">", "$", "~", "|"}

\* The switch of Lexer::scan_token on the character c just consumed; pos is the
\* position after c.
scan_switch(src, c, pos, ln, lsp, before) ==
    LET tok(t, lex, p) == Scanned(make_token(t, lex, p, ln, lsp), p, ln, lsp)
        m(ch)          == peek(src, pos, 0) = ch            \* match(ch) would succeed
    IN  CASE c = "\n" -> Scanned(make_token("NEWLINE", "\\n", pos, ln + 1, pos), pos, ln + 1, pos)
          [] c = "("  -> tok("LEFT_PAREN", "(", pos)
          [] c = ")"  -> tok("RIGHT_PAREN", ")", pos)
          [] c = "'"  -> string_literal(src, pos, ln, lsp)
          [] c = "_" /\ isdigit(peek(src, pos, 0)) -> number(src, pos, ln, lsp, "_")
          [] c = "."  ->
                LET p1 == IF m(" ") THEN pos + 1 ELSE pos      \* if (match(' ')) {}
                IN  IF isdigit(peek(src, p1, 0))
                    THEN number(src, p1 - 1, ln, lsp, IF p1 - 1 = 0 THEN before ELSE src[p1 - 1])
                    ELSE IF peek(src, p1, 0) = "=" THEN tok("ASSIGN_LOCAL", "=.", p1 + 1)
                    ELSE tok("VERB", ".", p1)
          [] c = ":"  -> IF m("=") THEN tok("ASSIGN_GLOBAL", "=:", pos + 1) ELSE tok("COLON", ":", pos)
          [] c = "="  -> IF m(".") THEN tok("ASSIGN_LOCAL", "=.", pos + 1)
                         ELSE IF m(":") THEN tok("ASSIGN_GLOBAL", "=:", pos + 1)
                         ELSE tok("VERB", "=", pos)
          [] c \in VerbChars ->
                IF c = "<" /\ m(":") THEN tok("VERB", "<:", pos + 1)
                ELSE IF c = ">" /\ m(":") THEN tok("VERB", ">:", pos + 1)
                ELSE tok("VERB", c, pos)
          [] c \in {"/", "\\"} -> IF m(":") THEN tok("ADVERB", c \o ":", pos + 1) ELSE tok("ADVERB", c, pos)
          [] c = "^"  -> IF m(":") THEN tok("CONJUNCTION", "^:", pos + 1) ELSE tok("CONJUNCTION", "^", pos)
          [] OTHER ->
                IF isalpha(c) \/ c = "_"
                THEN IF c = "N" /\ peek(src, pos, 0) = "B" /\ peek(src, pos, 1) = "."
                     THEN comment(src, pos + 2, ln, lsp)
                     ELSE identifier_or_keyword(src, pos, ln, lsp)
                ELSE IF isdigit(c) THEN number(src, pos, ln, lsp, c)
                ELSE tok("UNKNOWN", c, pos)

\* Lexer::scan_token called at pos < Len(src).  After a run of blanks it calls
\* itself; at the end of the source advance() then hands back the last blank
\* again, so the recursion never ends.
scan_token(src, pos, ln, lsp, before) ==
    LET c == src[pos + 1]
    IN  IF isspace(c) /\ c # "\n"
        THEN LET q == SkipWhile(src, pos + 1, Spaces \ {"\n"})
             IN  IF q >= Len(src) THEN Aborted("overflow", q, ln, lsp)
                 ELSE scan_switch(src, src[q + 1], q + 1, ln, lsp, before)
        ELSE scan_switch(src, c, pos + 1, ln, lsp, before)

\* where the token's own characters start: after the blanks scan_token skipped
TokenStart(src, pos) ==
    IF isspace(src[pos + 1]) /\ src[pos + 1] # "\n"
    THEN SkipWhile(src, pos + 1, Spaces \ {"\n"}) ELSE pos

Filtered(t) == t \in {"WHITESPACE", "COMMENT"}

EofToken(src, pos, ln, lsp) == Token("END_OF_FILE", "EOF", ln, pos - lsp + 1, NoLit)

\* Lexer::tokenize as a whole: [st, tokens].
RECURSIVE tokenize_from(_, _, _, _, _, _)
tokenize_from(src, pos, ln, lsp, acc, before) ==
    IF pos >= Len(src)
    THEN [st |-> "ok", tokens |-> Append(acc, EofToken(src, pos, ln, lsp))]
    ELSE Bind(scan_token(src, pos, ln, lsp, before), LAMBDA r :
             IF r.st # "ok" THEN [st |-> r.st, tokens |-> acc]
             ELSE tokenize_from(src, r.pos, r.line, r.lsp,
                                IF Filtered(r.tok.type) THEN acc ELSE Append(acc, r.tok), before))

tokenize(src, before) == tokenize_from(src, 0, 1, 0, <<>>, before)

(***************************************************************************)
(* AST nodes (src/src/ast/ast_nodes.hpp)                                   *)
(***************************************************************************)
NullNode == [type |-> "nullptr"]
NullLit  == [k |-> "null", v |-> RInt(0), s |-> <<>>]

NounLiteralNode(value)      == [type |-> "NOUN_LITERAL", value |-> value]
VectorLiteralNode(elements) == [type |-> "VECTOR_LITERAL", elements |-> elements]
NameNode(name)              == [type |-> "NAME_IDENTIFIER", name |-> name]
VerbNode(identifier)        == [type |-> "VERB", identifier |-> identifier]
AdverbNode(identifier)      == [type |-> "ADVERB", identifier |-> identifier]
ConjunctionNode(identifier) == [type |-> "CONJUNCTION", identifier |-> identifier]
MonadicApplicationNode(verb, argument) ==
    [type |-> "MONADIC_APPLICATION", verb |-> verb, argument |-> argument]
DyadicApplicationNode(left_argument, verb, right_argument) ==
    [type |-> "DYADIC_APPLICATION", left_argument |-> left_argument, verb |-> verb,
     right_argument |-> right_argument]
AdverbApplicationNode(verb, adverb) ==
    [type |-> "ADVERB_APPLICATION", verb |-> verb, adverb |-> adverb]
ConjunctionApplicationNode(left_operand, conjunction, right_operand) ==
    [type |-> "CONJUNCTION_APPLICATION", left_operand |-> left_operand,
     conjunction |-> conjunction, right_operand |-> right_operand]
TrainExpressionNode(verbs)  == [type |-> "TRAIN_EXPRESSION", verbs |-> verbs]

(***************************************************************************)
(* Parser (src/src/parser/parser.cpp).  ts is m_tokens, idx is             *)
(* m_current_token_idx.  A parsing function yields [st, node, idx]:        *)
(* st = "ok", "error" (Parser::error threw) or "overflow" (the recursion   *)
(* never ends).                                                            *)
(***************************************************************************)
start_sentinel == Token("UNKNOWN", "", 0, 0, NoLit)

p_peek(ts, idx, offset) == IF idx + offset >= Len(ts) THEN ts[Len(ts)] ELSE ts[idx + offset + 1]
p_previous(ts, idx)     == IF idx = 0 THEN start_sentinel ELSE ts[idx]
p_is_at_end(ts, idx)    == p_peek(ts, idx, 0).type = "END_OF_FILE"
p_check(ts, idx, t)     == ~p_is_at_end(ts, idx) /\ p_peek(ts, idx, 0).type = t
\* Parser::advance: the index afterwards (the token returned is p_previous of it)
p_advance(ts, idx)      == IF p_is_at_end(ts, idx) THEN idx ELSE idx + 1

Parsed(node, idx) == [st |-> "ok", node |-> node, idx |-> idx]
Failed(how, idx)  == [st |-> how, node |-> NullNode, idx |-> idx]

get_token_precedence(token) ==
    CASE token.type \in {"ASSIGN_LOCAL", "ASSIGN_GLOBAL"} -> 10
      [] token.type = "COMMA" -> 15
      [] token.type = "VERB"  -> IF token.lexeme = "^" THEN 30 ELSE 20
      [] OTHER -> 0

is_verb_like(node) ==
    node.type \in {"VERB", "ADVERB", "CONJUNCTION", "ADVERB_APPLICATION",
                   "CONJUNCTION_APPLICATION", "TRAIN_EXPRESSION"}

can_be_argument(token) ==
    token.type \in {"NOUN_INTEGER", "NOUN_FLOAT", "NOUN_STRING", "NAME", "LEFT_PAREN",
                    "VERB", "ADVERB", "CONJUNCTION"}

IsNumeric(ts, idx) == p_check(ts, idx, "NOUN_INTEGER") \/ p_check(ts, idx, "NOUN_FLOAT")

\* the loop collecting consecutive numeric tokens: [elements, idx]
RECURSIVE collect_numbers(_, _, _)
collect_numbers(ts, idx, acc) ==
    IF IsNumeric(ts, idx)
    THEN collect_numbers(ts, idx + 1, Append(acc, p_peek(ts, idx, 0).literal_value))
    ELSE [elements |-> acc, idx |-> idx]

NumbersNode(elements) ==
    IF Len(elements) > 1 THEN VectorLiteralNode(elements) ELSE NounLiteralNode(elements[1])

\* the look-ahead of nud on "(": [verb_count, idx] where the scan stopped
RECURSIVE train_scan(_, _, _)
train_scan(ts, idx, verb_count) ==
    IF ~p_is_at_end(ts, idx) /\ p_peek(ts, idx, 0).type # "RIGHT_PAREN"
    THEN IF p_peek(ts, idx, 0).type = "VERB"
         THEN train_scan(ts, IF p_check(ts, idx + 1, "ADVERB") THEN idx + 2 ELSE idx + 1,
                         verb_count + 1)
         ELSE IF p_peek(ts, idx, 0).type = "ADVERB"
         THEN train_scan(ts, idx + 1, verb_count + 1)
         ELSE [verb_count |-> verb_count, idx |-> idx]
    ELSE [verb_count |-> verb_count, idx |-> idx]

\* a verb with its optional adverb, or a lone adverb, at idx: [node, idx]
verb_with_adverb(ts, idx) ==
    IF p_check(ts, idx, "VERB")
    THEN IF p_check(ts, idx + 1, "ADVERB")
         THEN [node |-> AdverbApplicationNode(VerbNode(p_peek(ts, idx, 0).lexeme),
                                              AdverbNode(p_peek(ts, idx, 1).lexeme)),
               idx |-> idx + 2]
         ELSE [node |-> VerbNode(p_peek(ts, idx, 0).lexeme), idx |-> idx + 1]
    ELSE [node |-> AdverbNode(p_peek(ts, idx, 0).lexeme), idx |-> idx + 1]

\* a collecting loop that keeps the latest verb first instead of last: the
\* variant the train property C16 has to tell from the code
RECURSIVE train_collect_latest_first(_, _, _)
train_collect_latest_first(ts, idx, train_verbs) ==
    IF p_check(ts, idx, "VERB") \/ p_check(ts, idx, "ADVERB")
    THEN LET v == verb_with_adverb(ts, idx)
         IN  train_collect_latest_first(ts, v.idx, <<v.node>> \o train_verbs)
    ELSE [verbs |-> train_verbs, idx |-> idx]

\* the collecting loop of Parser::parse_train: [verbs, idx]
RECURSIVE train_collect(_, _, _)
train_collect(ts, idx, train_verbs) ==
    IF p_check(ts, idx, "VERB") \/ p_check(ts, idx, "ADVERB")
    THEN LET v == verb_with_adverb(ts, idx)
         IN  train_collect(ts, v.idx, Append(train_verbs, v.node))
    ELSE [verbs |-> train_verbs, idx |-> idx]

parse_train(ts, idx, first_verb_expr) ==
    Bind(train_collect(ts, idx, <<first_verb_expr>>), LAMBDA c :
        IF Len(c.verbs) < 2 THEN Parsed(c.verbs[1], c.idx)
        ELSE Parsed(TrainExpressionNode(c.verbs), c.idx))

\* Parser::consume(RIGHT_PAREN, ..) after a node was parsed
consume_rparen(ts, parsed) ==
    Bind(parsed, LAMBDA r :
        IF r.st # "ok" THEN r
        ELSE IF p_check(ts, r.idx, "RIGHT_PAREN") THEN Parsed(r.node, r.idx + 1)
        ELSE Failed("error", r.idx))

\* the MonadicApplicationNode of verb and the operand just parsed; a null
\* operand is reported with error()
monadic_of(verb, parsed) ==
    Bind(parsed, LAMBDA r :
        IF r.st # "ok" THEN r
        ELSE IF r.node = NullNode THEN Failed("error", r.idx)
        ELSE Parsed(MonadicApplicationNode(verb, r.node), r.idx))

RECURSIVE parse_primary(_, _)
parse_primary(ts, idx) ==
    IF IsNumeric(ts, idx)
    THEN LET c == collect_numbers(ts, idx, <<>>) IN Parsed(NumbersNode(c.elements), c.idx)
    ELSE IF p_check(ts, idx, "NOUN_STRING")
    THEN Parsed(NounLiteralNode(p_peek(ts, idx, 0).literal_value), idx + 1)
    ELSE IF p_check(ts, idx, "NAME")
    THEN Parsed(NameNode(p_peek(ts, idx, 0).lexeme), idx + 1)
    ELSE IF p_check(ts, idx, "VERB")
    THEN LET verb_ast_node == VerbNode(p_peek(ts, idx, 0).lexeme)
             i1 == idx + 1
         IN  IF p_check(ts, i1, "ADVERB")
             THEN monadic_of(AdverbApplicationNode(verb_ast_node, AdverbNode(p_peek(ts, i1, 0).lexeme)),
                             parse_primary(ts, i1 + 1))
             ELSE IF p_check(ts, i1, "CONJUNCTION")
             THEN LET conj_node == ConjunctionNode(p_peek(ts, i1, 0).lexeme)
                      i2 == i1 + 1
                      right ==    \* the right operand of the conjunction
                          IF p_check(ts, i2, "VERB")
                          THEN LET v == verb_with_adverb(ts, i2) IN Parsed(v.node, v.idx)
                          ELSE IF p_check(ts, i2, "ADVERB") THEN Failed("error", i2)
                          ELSE Bind(parse_primary(ts, i2), LAMBDA r :
                                   IF r.st = "ok" /\ r.node = NullNode
                                   THEN Failed("error", r.idx) ELSE r)
                  IN  Bind(right, LAMBDA r :
                          IF r.st # "ok" THEN r
                          ELSE monadic_of(ConjunctionApplicationNode(verb_ast_node, conj_node, r.node),
                                          parse_primary(ts, r.idx)))
             ELSE monadic_of(verb_ast_node, parse_primary(ts, i1))
    ELSE IF p_peek(ts, idx, 0).type = "RIGHT_PAREN" THEN Parsed(NullNode, idx)
    ELSE Failed("error", idx)

RECURSIVE parse_expression(_, _, _), nud(_, _, _), led(_, _, _, _), pratt_loop(_, _, _)

\* Parser::nud for `token`, with the parser at idx (after the token)
nud(ts, token, idx) ==
    CASE token.type \in {"NOUN_INTEGER", "NOUN_FLOAT"} ->
            IF token.literal_value.k \notin {"int", "float"} THEN Failed("error", idx)
            ELSE LET c == collect_numbers(ts, idx, <<token.literal_value>>)
                 IN  Parsed(NumbersNode(c.elements), c.idx)
      [] token.type = "NOUN_STRING" ->
            IF token.literal_value.k = "str" THEN Parsed(NounLiteralNode(token.literal_value), idx)
            ELSE Failed("error", idx)
      [] token.type = "NAME" -> Parsed(NameNode(token.lexeme), idx)
      [] token.type = "LEFT_PAREN" ->
            LET scan == train_scan(ts, idx, 0)
                is_train_pattern ==
                    scan.verb_count >= 2 /\ p_check(ts, scan.idx, "RIGHT_PAREN")
            IN  IF is_train_pattern
                THEN LET first == verb_with_adverb(ts, idx)
                     IN  consume_rparen(ts, parse_train(ts, first.idx, first.node))
                ELSE consume_rparen(ts, parse_expression(ts, idx, 0))
      [] token.type = "VERB" ->
            LET verb_node == VerbNode(token.lexeme)
            IN  IF p_check(ts, idx, "ADVERB")
                THEN monadic_of(AdverbApplicationNode(verb_node, AdverbNode(p_peek(ts, idx, 0).lexeme)),
                                parse_primary(ts, idx + 1))
                ELSE IF p_check(ts, idx, "CONJUNCTION")
                THEN monadic_of(ConjunctionApplicationNode(verb_node,
                                    ConjunctionNode(p_peek(ts, idx, 0).lexeme), NullNode),
                                parse_primary(ts, idx + 1))
                ELSE Bind(parse_expression(ts, idx, 0), LAMBDA r :
                         IF r.st # "ok" THEN r
                         ELSE Parsed(MonadicApplicationNode(verb_node, r.node), r.idx))
      [] OTHER -> Failed("error", idx)

\* Parser::led for the operator `token`, with the parser at idx (after it)
led(ts, token, left_node, idx) ==
    CASE token.type \in {"VERB", "COMMA"} ->
            Bind(parse_expression(ts, idx, get_token_precedence(token) - 1), LAMBDA r :
                IF r.st # "ok" THEN r
                ELSE Parsed(DyadicApplicationNode(left_node, VerbNode(token.lexeme), r.node), r.idx))
      [] token.type \in {"ASSIGN_LOCAL", "ASSIGN_GLOBAL"} ->
            IF left_node.type # "NAME_IDENTIFIER" THEN Failed("error", idx)
            ELSE parse_expression(ts, idx, get_token_precedence(token) - 1)  \* returns value_expr
      [] OTHER -> Failed("error", idx)

\* the while loop of parse_expression; r holds `left` and the index
pratt_loop(ts, parsed, min_precedence) ==
    Bind(parsed, LAMBDA r :
        IF r.st = "ok" /\ ~p_is_at_end(ts, r.idx)
           /\ get_token_precedence(p_peek(ts, r.idx, 0)) > min_precedence
        THEN pratt_loop(ts, led(ts, p_peek(ts, r.idx, 0), r.node, r.idx + 1), min_precedence)
        ELSE r)

\* Parser::parse_expression(min_precedence).  At the end of the tokens advance()
\* does not move and hands back the previous token; when that is a verb or a
\* "(", nud comes back here in the same state, without end.
parse_expression(ts, idx, min_precedence) ==
    IF p_is_at_end(ts, idx) /\ p_previous(ts, idx).type \in {"VERB", "LEFT_PAREN"}
    THEN Failed("overflow", idx)
    ELSE Bind(pratt_loop(ts, nud(ts, p_previous(ts, p_advance(ts, idx)), p_advance(ts, idx)),
                         min_precedence),
              LAMBDA left :
                 IF left.st = "ok" /\ left.node # NullNode /\ is_verb_like(left.node)
                    /\ ~p_is_at_end(ts, left.idx) /\ can_be_argument(p_peek(ts, left.idx, 0))
                 THEN Bind(parse_expression(ts, left.idx, 100), LAMBDA argument :
                          IF argument.st # "ok" THEN argument
                          ELSE IF argument.node # NullNode
                          THEN Parsed(MonadicApplicationNode(left.node, argument.node), argument.idx)
                          ELSE Parsed(left.node, argument.idx))
                 ELSE left)

parse_statement(ts, idx) ==
    IF p_peek(ts, idx, 0).type = "NAME"
       /\ p_peek(ts, idx, 1).type \in {"ASSIGN_LOCAL", "ASSIGN_GLOBAL"}
    THEN parse_expression(ts, p_advance(ts, p_advance(ts, idx)), 0)    \* returns value_expr
    ELSE Bind(parse_expression(ts, idx, 0), LAMBDA r :
             IF r.st = "ok" /\ r.node = NullNode THEN Parsed(NounLiteralNode(NullLit), r.idx) ELSE r)

\* the loop of Parser::parse: [st, statements, idx], idx being
\* m_current_token_idx when the loop is left
RECURSIVE parse_loop(_, _, _)
parse_loop(ts, idx, statements) ==
    IF p_is_at_end(ts, idx) THEN [st |-> "ok", statements |-> statements, idx |-> idx]
    ELSE IF p_peek(ts, idx, 0).type = "NEWLINE" THEN parse_loop(ts, idx + 1, statements)
    ELSE Bind(parse_statement(ts, idx), LAMBDA r :
             IF r.st # "ok" THEN [st |-> r.st, statements |-> statements, idx |-> r.idx]
             ELSE IF ~p_is_at_end(ts, r.idx) /\ p_peek(ts, r.idx, 0).type # "NEWLINE"
             THEN [st |-> "ok", statements |-> Append(statements, r.node),    \* break
                   idx |-> IF p_peek(ts, r.idx, 0).type = "RIGHT_PAREN" THEN r.idx + 1 ELSE r.idx]
             ELSE parse_loop(ts, r.idx, Append(statements, r.node)))

\* Parser::parse: [st, node, statements, idx]; node is the root handed to the
\* caller
parse(ts) ==
    Bind(parse_loop(ts, 0, <<>>), LAMBDA r :
        [st |-> r.st,
         statements |-> r.statements,
         idx |-> r.idx,
         node |-> IF r.st # "ok" THEN NullNode
                  ELSE IF r.statements = <<>> THEN NounLiteralNode(NullLit)
                  ELSE r.statements[1]])

(***************************************************************************)
(* JTensor and JValue (src/src/interpreter/tf_operations.cpp)              *)
(* A tensor is its dtype, its shape and the data vector of that dtype.     *)
(***************************************************************************)
NullValue        == [kind |-> "null"]
StringValue(cs)  == [kind |-> "string", s |-> cs]
Tensor(dtype, shape, data) ==
    [kind |-> "tensor", dtype |-> dtype, shape |-> shape, data |-> data]

scalar_int(value)   == Tensor("INT64", <<>>, <<value>>)       \* JTensor::scalar(long long)
scalar_float(value) == Tensor("FLOAT64", <<>>, <<value>>)     \* JTensor::scalar(double)

\* JTensor::from_data, for either element type
from_data(dtype, data, shape) ==
    Tensor(dtype,
           IF shape = <<>> /\ Len(data) = 1 THEN <<>>
           ELSE IF shape = <<>> THEN <<Len(data)>>
           ELSE shape,
           data)

rank(t) == Len(t.shape)

RECURSIVE Product(_)
Product(s) == IF s = <<>> THEN 1 ELSE Head(s) * Product(Tail(s))

\* JTensor::size.  The product is returned as a size_t, so a negative product
\* stands for the huge length it wraps to; SizeGeq compares two such lengths.
size(t) == IF t.shape = <<>> THEN 1 ELSE Product(t.shape)

SizeGeq(x, y) == IF (x < 0) = (y < 0) THEN x >= y ELSE x < 0

\* static_cast<long long>(double): truncation toward zero
Trunc(r) == IF r[1] >= 0 THEN r[1] \div r[2] ELSE -((-r[1]) \div r[2])

\* JTensor::get_scalar<long long> of a rank-0 tensor
get_scalar_ll(t) ==
    IF t.data = <<>> THEN 0
    ELSE IF t.dtype = "INT64" THEN t.data[1][1] ELSE Trunc(t.data[1])

(***************************************************************************)
(* TFSession kernels.  A kernel yields [st, t, oob]: st = "ok" with the    *)
(* tensor t, "null" (nullptr returned), "throw" (an exception leaves the   *)
(* kernel) or "crash" (integer division by zero); oob tells that an        *)
(* element was read past the end of a data vector, and such a read yields  *)
(* the value `stray`.                                                      *)
(***************************************************************************)
Ok(t, oob)  == [st |-> "ok", t |-> t, oob |-> oob]
Nil         == [st |-> "null", t |-> NullValue, oob |-> FALSE]
NilAfter(oob) == [st |-> "null", t |-> NullValue, oob |-> oob]
Thrown      == [st |-> "throw", t |-> NullValue, oob |-> FALSE]
Crashed     == [st |-> "crash", t |-> NullValue, oob |-> FALSE]

Max(a, b) == IF a > b THEN a ELSE b

\* data[i] for a 0-based index i of a std::vector
ReadAt(data, i, stray) == IF i < Len(data) THEN data[i + 1] ELSE stray

has_float(a, b) == a.dtype = "FLOAT64" \/ b.dtype = "FLOAT64"
ResultType(a, b) == IF has_float(a, b) THEN "FLOAT64" ELSE "INT64"

\* the element loop shared by the dyadic kernels: operand a is read at index 0
\* when a_one holds and at i otherwise, and likewise for b
ZipData(Op(_, _), a, b, a_one, b_one, stray) ==
    [i \in 1..Max(Len(a.data), Len(b.data)) |->
        Op(ReadAt(a.data, IF a_one THEN 0 ELSE i - 1, stray),
           ReadAt(b.data, IF b_one THEN 0 ELSE i - 1, stray))]

\* whether one of the first n rounds of that loop reads out of bounds
ZipOobUpTo(a, b, a_one, b_one, n) ==
    \E i \in 1..n :
        \/ (IF a_one THEN 0 ELSE i - 1) >= Len(a.data)
        \/ (IF b_one THEN 0 ELSE i - 1) >= Len(b.data)

ZipOob(a, b, a_one, b_one) == ZipOobUpTo(a, b, a_one, b_one, Max(Len(a.data), Len(b.data)))

\* add, subtract, multiply: the operands' ranks decide the broadcast
Arithmetic(Op(_, _), a, b, stray) ==
    LET a_is_scalar  == rank(a) = 0
        b_is_scalar  == rank(b) = 0
        result_shape == IF a_is_scalar THEN b.shape ELSE a.shape
    IN  IF ~a_is_scalar /\ ~b_is_scalar /\ a.shape # b.shape THEN Nil
        ELSE Ok(from_data(ResultType(a, b), ZipData(Op, a, b, a_is_scalar, b_is_scalar, stray),
                          result_shape),
                ZipOob(a, b, a_is_scalar, b_is_scalar))

add(a, b, stray)      == Arithmetic(RAdd, a, b, stray)
subtract(a, b, stray) == Arithmetic(RSub, a, b, stray)
multiply(a, b, stray) == Arithmetic(RMul, a, b, stray)

\* TFSession::divide without its test of the divisor: IEEE division, whose
\* quotient by zero (an infinity or a NaN) is written RInt(0) here
divide_unchecked(a, b, stray) ==
    LET a_one        == Len(a.data) = 1
        b_one        == Len(b.data) = 1
        result_shape == IF SizeGeq(size(a), size(b)) THEN a.shape ELSE b.shape
        Quot(x, y)   == IF y[1] = 0 THEN RInt(0) ELSE RDiv(x, y)
    IN  IF a.shape # b.shape /\ size(a) # 1 /\ size(b) # 1 THEN Nil
        ELSE Ok(from_data("FLOAT64", ZipData(Quot, a, b, a_one, b_one, stray), result_shape),
                ZipOob(a, b, a_one, b_one))

\* TFSession::divide.  Round i tests the divisor before it reads the
\* dividend, so the round that finds a zero reads only b.
divide(a, b, stray) ==
    LET a_one        == Len(a.data) = 1
        b_one        == Len(b.data) = 1
        result_shape == IF SizeGeq(size(a), size(b)) THEN a.shape ELSE b.shape
        result_size  == Max(Len(a.data), Len(b.data))
        b_idx(i)     == IF b_one THEN 0 ELSE i - 1
        divisor(i)   == ReadAt(b.data, b_idx(i), stray)
        zeros        == {i \in 1..result_size : divisor(i)[1] = 0}
        first_zero   == CHOOSE i \in zeros : \A j \in zeros : i <= j
        Quot(x, y)   == IF y[1] = 0 THEN RInt(0) ELSE RDiv(x, y)
    IN  IF a.shape # b.shape /\ size(a) # 1 /\ size(b) # 1 THEN Nil
        ELSE IF zeros # {} THEN NilAfter(\/ ZipOobUpTo(a, b, a_one, b_one, first_zero - 1)
                                         \/ b_idx(first_zero) >= Len(b.data))
        ELSE Ok(from_data("FLOAT64", ZipData(Quot, a, b, a_one, b_one, stray), result_shape),
                ZipOob(a, b, a_one, b_one))

\* std::pow for an integer exponent n >= 0
RECURSIVE RPow(_, _)
RPow(x, n) == IF n = 0 THEN RInt(1) ELSE RMul(x, RPow(x, n - 1))

PowOp(x, y) == RPow(x, y[1])

\* TFSession::power; the model covers exponents that are non-negative integers
power(a, b, stray) ==
    LET a_is_scalar  == rank(a) = 0
        b_is_scalar  == rank(b) = 0
        result_shape == IF a_is_scalar THEN b.shape ELSE a.shape
    IN  IF ~a_is_scalar /\ ~b_is_scalar /\ a.shape # b.shape THEN Nil
        ELSE Ok(from_data("FLOAT64", ZipData(PowOp, a, b, a_is_scalar, b_is_scalar, stray),
                          result_shape),
                ZipOob(a, b, a_is_scalar, b_is_scalar))

negate(tensor) ==
    Ok(from_data(tensor.dtype, [i \in 1..Len(tensor.data) |-> RNeg(tensor.data[i])], tensor.shape),
       FALSE)

square(tensor) ==
    Ok(from_data(tensor.dtype,
                 [i \in 1..Len(tensor.data) |-> RMul(tensor.data[i], tensor.data[i])],
                 tensor.shape),
       FALSE)

reciprocal(tensor) ==
    IF \E i \in 1..Len(tensor.data) : tensor.data[i][1] = 0 THEN Nil
    ELSE Ok(from_data("FLOAT64",
                      [i \in 1..Len(tensor.data) |-> RDiv(RInt(1), tensor.data[i])],
                      tensor.shape),
            FALSE)

iota(n) == Ok(from_data("INT64", [i \in 1..(IF n > 0 THEN n ELSE 0) |-> RInt(i - 1)], <<n>>), FALSE)

RECURSIVE Fold(_, _, _)
Fold(Op(_, _), acc, data) ==
    IF data = <<>> THEN acc ELSE Fold(Op, Op(acc, Head(data)), Tail(data))

RMin(a, b) == IF RLess(b, a) THEN b ELSE a
RMax(a, b) == IF RLess(a, b) THEN b ELSE a

\* the scalar of the tensor's own dtype
scalar_of(dtype, value) == Tensor(dtype, <<>>, <<value>>)

reduce_sum(tensor)     == Ok(scalar_of(tensor.dtype, Fold(RAdd, RInt(0), tensor.data)), FALSE)
reduce_product(tensor) == Ok(scalar_of(tensor.dtype, Fold(RMul, RInt(1), tensor.data)), FALSE)
reduce_min(tensor) ==
    IF tensor.data = <<>> THEN Ok(scalar_of(tensor.dtype, RInt(0)), FALSE)
    ELSE Ok(scalar_of(tensor.dtype, Fold(RMin, tensor.data[1], tensor.data)), FALSE)
reduce_max(tensor) ==
    IF tensor.data = <<>> THEN Ok(scalar_of(tensor.dtype, RInt(0)), FALSE)
    ELSE Ok(scalar_of(tensor.dtype, Fold(RMax, tensor.data[1], tensor.data)), FALSE)
reduce_mean(tensor) ==
    IF tensor.data = <<>> THEN Ok(scalar_float(RInt(0)), FALSE)
    ELSE Ok(scalar_float(RDiv(Fold(RAdd, RInt(0), tensor.data), RInt(Len(tensor.data)))), FALSE)

\* TFSession::reshape.  new_size is a size_t: a negative product is a huge
\* length that reserve() refuses with std::length_error; old_size = 0 makes
\* i % old_size a division by zero.
reshape(tensor, new_shape, stray) ==
    LET old_size == size(tensor)
        new_size == Product(new_shape)
        idx(i)   == IF old_size < 0 THEN i ELSE i % old_size    \* i % old_size on size_t
    IN  IF new_size < 0 THEN Thrown
        ELSE IF new_size > 0 /\ old_size = 0 THEN Crashed
        ELSE Ok(from_data(tensor.dtype,
                          [i \in 1..new_size |-> ReadAt(tensor.data, idx(i - 1), stray)],
                          new_shape),
                \E i \in 1..new_size : idx(i - 1) >= Len(tensor.data))

transpose(tensor) == Ok(from_data(tensor.dtype, tensor.data, tensor.shape), FALSE)

\* equal, less_than, greater_than, less_equal, greater_equal: the data sizes
\* decide the broadcast and no shape is compared
Comparison(Rel(_, _), a, b, stray) ==
    LET a_one        == Len(a.data) = 1
        b_one        == Len(b.data) = 1
        Bit(x, y)    == IF Rel(x, y) THEN RInt(1) ELSE RInt(0)
        result_shape == IF Len(a.data) > Len(b.data) THEN a.shape ELSE b.shape
    IN  Ok(from_data("INT64", ZipData(Bit, a, b, a_one, b_one, stray), result_shape),
           ZipOob(a, b, a_one, b_one))

REq(x, y)        == x = y
RLessEq(x, y)    == ~RLess(y, x)
RGreater(x, y)   == RLess(y, x)
RGreaterEq(x, y) == ~RLess(x, y)

equal(a, b, stray)         == Comparison(REq, a, b, stray)
less_than(a, b, stray)     == Comparison(RLess, a, b, stray)
greater_than(a, b, stray)  == Comparison(RGreater, a, b, stray)
less_equal(a, b, stray)    == Comparison(RLessEq, a, b, stray)
greater_equal(a, b, stray) == Comparison(RGreaterEq, a, b, stray)

concatenate(a, b) ==
    LET result_data  == a.data \o b.data
        result_shape == IF rank(a) = 0 /\ rank(b) = 0 THEN <<2>>
                        ELSE IF rank(a) = 1 /\ rank(b) = 1 THEN <<Len(a.data) + Len(b.data)>>
                        ELSE <<Len(result_data)>>
    IN  Ok(from_data(ResultType(a, b), result_data, result_shape), FALSE)

matrix_multiply(a, b, stray) ==
    IF rank(a) # 1 \/ rank(b) # 1 THEN Nil
    ELSE IF a.shape[1] # b.shape[1] THEN Nil
    ELSE Ok(scalar_of(ResultType(a, b),
                      Fold(RAdd, RInt(0),
                           [i \in 1..Len(a.data) |-> RMul(a.data[i], ReadAt(b.data, i - 1, stray))])),
            Len(b.data) < Len(a.data))

(***************************************************************************)
(* Interpreter (src/src/interpreter/interpreter.cpp), eager mode.           *)
(* An evaluation yields [st, v, oob]: st = "ok" with the JValue v (the     *)
(* null value for nullptr), "throw" or "crash"; oob as for the kernels.    *)
(***************************************************************************)
Value(v)          == [st |-> "ok", v |-> v, oob |-> FALSE]
NullResult        == Value(NullValue)
IsNull(r)         == r.v = NullValue
is_tensor_value(v) == v.kind = "tensor"

\* from_tensor applied to what a kernel returned
from_tensor(returned) ==
    Bind(returned, LAMBDA k :
        [st  |-> IF k.st \in {"ok", "null"} THEN "ok" ELSE k.st,
         v   |-> IF k.st = "ok" THEN k.t ELSE NullValue,
         oob |-> k.oob])

\* the outcome r of a step that ran after steps whose reads were oob
After(outcome_of_step, oob) == Bind(outcome_of_step, LAMBDA r : [r EXCEPT !.oob = r.oob \/ oob])

\* Interpreter::to_tensor gives nullptr for anything but a tensor
no_tensor(v) == ~is_tensor_value(v)

j_plus(left, right, stray) ==
    IF no_tensor(left) \/ no_tensor(right) THEN NullResult ELSE from_tensor(add(left, right, stray))
j_minus(left, right, stray) ==
    IF no_tensor(left) \/ no_tensor(right) THEN NullResult
    ELSE from_tensor(subtract(left, right, stray))
j_times(left, right, stray) ==
    IF no_tensor(left) \/ no_tensor(right) THEN NullResult
    ELSE from_tensor(multiply(left, right, stray))
j_divide(left, right, stray) ==
    IF no_tensor(left) \/ no_tensor(right) THEN NullResult
    ELSE from_tensor(divide(left, right, stray))
j_power(left, right, stray) ==
    IF no_tensor(left) \/ no_tensor(right) THEN NullResult
    ELSE from_tensor(power(left, right, stray))
j_equal(left, right, stray) ==
    IF no_tensor(left) \/ no_tensor(right) THEN NullResult
    ELSE from_tensor(equal(left, right, stray))
j_less_than(left, right, stray) ==
    IF no_tensor(left) \/ no_tensor(right) THEN NullResult
    ELSE from_tensor(less_than(left, right, stray))
j_greater_than(left, right, stray) ==
    IF no_tensor(left) \/ no_tensor(right) THEN NullResult
    ELSE from_tensor(greater_than(left, right, stray))
j_less_equal(left, right, stray) ==
    IF no_tensor(left) \/ no_tensor(right) THEN NullResult
    ELSE from_tensor(less_equal(left, right, stray))
j_greater_equal(left, right, stray) ==
    IF no_tensor(left) \/ no_tensor(right) THEN NullResult
    ELSE from_tensor(greater_equal(left, right, stray))
j_concatenate(left, right) ==
    IF no_tensor(left) \/ no_tensor(right) THEN NullResult
    ELSE from_tensor(concatenate(left, right))

j_iota(operand) ==
    IF no_tensor(operand) THEN NullResult
    ELSE IF rank(operand) # 0 THEN NullResult
    ELSE from_tensor(iota(get_scalar_ll(operand)))

j_shape(operand) ==
    IF no_tensor(operand) THEN NullResult
    ELSE Value(from_data("INT64", [i \in 1..Len(operand.shape) |-> RInt(operand.shape[i])],
                         <<Len(operand.shape)>>))

j_tally(operand) ==
    IF no_tensor(operand) THEN NullResult
    ELSE Value(scalar_int(RInt(IF rank(operand) = 0 THEN 1 ELSE operand.shape[1])))

j_reshape(shape, data, stray) ==
    IF no_tensor(shape) \/ no_tensor(data) THEN NullResult
    ELSE LET new_shape == IF rank(shape) = 0 THEN <<get_scalar_ll(shape)>> ELSE shape.shape
         IN  from_tensor(reshape(data, new_shape, stray))

j_negate(operand)     == IF no_tensor(operand) THEN NullResult ELSE from_tensor(negate(operand))
j_square(operand)     == IF no_tensor(operand) THEN NullResult ELSE from_tensor(square(operand))
j_reciprocal(operand) == IF no_tensor(operand) THEN NullResult ELSE from_tensor(reciprocal(operand))

execute_monadic_verb(verb_name, operand) ==
    CASE verb_name = "i." -> j_iota(operand)
      [] verb_name = "$"  -> j_shape(operand)
      [] verb_name = "#"  -> j_tally(operand)
      [] verb_name = "-"  -> j_negate(operand)
      [] verb_name = "*:" -> j_square(operand)
      [] verb_name = "%"  -> j_reciprocal(operand)
      [] OTHER            -> NullResult

execute_dyadic_verb(verb_name, left, right, stray) ==
    CASE verb_name = "+"  -> j_plus(left, right, stray)
      [] verb_name = "-"  -> j_minus(left, right, stray)
      [] verb_name = "*"  -> j_times(left, right, stray)
      [] verb_name = "%"  -> j_divide(left, right, stray)
      [] verb_name = "^"  -> j_power(left, right, stray)
      [] verb_name = "$"  -> j_reshape(left, right, stray)
      [] verb_name = "="  -> j_equal(left, right, stray)
      [] verb_name = "<"  -> j_less_than(left, right, stray)
      [] verb_name = ">"  -> j_greater_than(left, right, stray)
      [] verb_name = "<:" -> j_less_equal(left, right, stray)
      [] verb_name = ">:" -> j_greater_equal(left, right, stray)
      [] verb_name = ","  -> j_concatenate(left, right)
      [] OTHER            -> NullResult

execute_fold(verb_name, operand) ==
    IF no_tensor(operand) THEN NullResult
    ELSE CASE verb_name = "+" -> from_tensor(reduce_sum(operand))
           [] verb_name = "*" -> from_tensor(reduce_product(operand))
           [] verb_name = "<" -> from_tensor(reduce_min(operand))
           [] verb_name = ">" -> from_tensor(reduce_max(operand))
           [] OTHER           -> NullResult

execute_adverb_application(adverb_app, operand) ==
    IF adverb_app.verb.type # "VERB" \/ adverb_app.adverb.type # "ADVERB" THEN NullResult
    ELSE IF adverb_app.adverb.identifier \in {"/", "./"}
    THEN execute_fold(adverb_app.verb.identifier, operand)
    ELSE NullResult

execute_conjunction_application(conj_app, operand) ==
    IF conj_app.conjunction.type = "CONJUNCTION" /\ conj_app.conjunction.identifier = ".*"
       /\ is_tensor_value(operand)
    THEN Value(operand)
    ELSE NullResult

execute_inner_product(verb_name, left, right, stray) ==
    IF no_tensor(left) \/ no_tensor(right) THEN NullResult
    ELSE IF verb_name = "*" /\ rank(left) >= 2 /\ rank(right) >= 2
    THEN from_tensor(matrix_multiply(left, right, stray))
    ELSE IF verb_name = "*" /\ rank(left) = 1 /\ rank(right) = 1
    THEN Bind(multiply(left, right, stray), LAMBDA multiply_result :
             IF multiply_result.st # "ok" THEN from_tensor(multiply_result)
             ELSE After(from_tensor(reduce_sum(multiply_result.t)), multiply_result.oob))
    ELSE Bind(j_times(left, right, stray), LAMBDA mult_result :
             IF IsNull(mult_result) THEN NullResult
             ELSE IF mult_result.v.shape = <<>> THEN mult_result
             ELSE After(from_tensor(reduce_sum(mult_result.v)), mult_result.oob))

\* a verb of a train applied to the argument (verbs[0] and verbs[2] of a fork)
train_monadic(verb, argument) ==
    CASE verb.type = "NAME_IDENTIFIER"    -> execute_monadic_verb(verb.name, argument)
      [] verb.type = "VERB"               -> execute_monadic_verb(verb.identifier, argument)
      [] verb.type = "ADVERB_APPLICATION" -> execute_adverb_application(verb, argument)
      [] OTHER                            -> NullResult

train_supported(verb) == verb.type \in {"NAME_IDENTIFIER", "VERB", "ADVERB_APPLICATION"}

\* a fork taken the other way round, (h y) g (f y): the variant the fork
\* property C6 has to tell from the code
fork_outer_verbs_swapped(node, argument, stray) ==
    IF Len(node.verbs) = 3
    THEN Bind(train_monadic(node.verbs[3], argument), LAMBDA left_result :
         Bind(train_monadic(node.verbs[1], argument), LAMBDA right_result :
             IF IsNull(left_result) \/ IsNull(right_result) \/ node.verbs[2].type # "VERB"
             THEN NullResult
             ELSE execute_dyadic_verb(node.verbs[2].identifier, left_result.v, right_result.v, stray)))
    ELSE NullResult

evaluate_train_expression(node, argument, stray) ==
    IF Len(node.verbs) = 3
    THEN Bind(train_monadic(node.verbs[1], argument), LAMBDA left_result :
         Bind(train_monadic(node.verbs[3], argument), LAMBDA right_result :
             LET middle == node.verbs[2]
             IN  IF ~train_supported(node.verbs[1]) \/ ~train_supported(node.verbs[3])
                 THEN NullResult
                 ELSE IF IsNull(left_result) \/ IsNull(right_result) THEN NullResult
                 ELSE IF middle.type = "NAME_IDENTIFIER"
                 THEN After(execute_dyadic_verb(middle.name, left_result.v, right_result.v, stray),
                            left_result.oob \/ right_result.oob)
                 ELSE IF middle.type = "VERB"
                 THEN After(execute_dyadic_verb(middle.identifier, left_result.v, right_result.v, stray),
                            left_result.oob \/ right_result.oob)
                 ELSE NullResult))
    ELSE NullResult     \* hooks and longer trains: "not yet implemented"

evaluate_noun_literal(node) ==
    CASE node.value.k = "int"   -> Value(scalar_int(node.value.v))
      [] node.value.k = "float" -> Value(scalar_float(node.value.v))
      [] node.value.k = "str"   -> Value(StringValue(node.value.s))
      [] OTHER                  -> NullResult

evaluate_vector_literal(node) ==
    LET all_integers == \A i \in 1..Len(node.elements) : node.elements[i].k = "int"
        all_floats   == \A i \in 1..Len(node.elements) : node.elements[i].k \in {"int", "float"}
        values       == [i \in 1..Len(node.elements) |-> node.elements[i].v]
    IN  IF node.elements = <<>> THEN Value(from_data("FLOAT64", <<>>, <<0>>))
        ELSE IF all_integers THEN Value(from_data("INT64", values, <<Len(values)>>))
        ELSE IF all_floats THEN Value(from_data("FLOAT64", values, <<Len(values)>>))
        ELSE NullResult

evaluate_name_identifier(node, env) ==
    IF node.name \in DOMAIN env THEN Value(env[node.name]) ELSE NullResult

RECURSIVE evaluate(_, _, _)

evaluate_monadic_application(node, env, stray) ==
    Bind(evaluate(node.argument, env, stray), LAMBDA operand :
        LET verb    == node.verb
            applied ==
                CASE verb.type = "NAME_IDENTIFIER"    -> execute_monadic_verb(verb.name, operand.v)
                  [] verb.type = "VERB"               -> execute_monadic_verb(verb.identifier, operand.v)
                  [] verb.type = "ADVERB_APPLICATION" -> execute_adverb_application(verb, operand.v)
                  [] verb.type = "CONJUNCTION_APPLICATION" ->
                                                execute_conjunction_application(verb, operand.v)
                  [] verb.type = "TRAIN_EXPRESSION"   -> evaluate_train_expression(verb, operand.v, stray)
                  [] OTHER                            -> NullResult
        IN  IF operand.st # "ok" \/ IsNull(operand) THEN operand
            ELSE After(applied, operand.oob))

evaluate_dyadic_application(node, env, stray) ==
    Bind(evaluate(node.left_argument, env, stray), LAMBDA left :
    Bind(IF left.st # "ok" THEN left ELSE evaluate(node.right_argument, env, stray), LAMBDA right :
        LET verb  == node.verb
            applied ==
                CASE verb.type = "NAME_IDENTIFIER" ->
                        execute_dyadic_verb(verb.name, left.v, right.v, stray)
                  [] verb.type = "VERB" ->
                        execute_dyadic_verb(verb.identifier, left.v, right.v, stray)
                  [] OTHER -> NullResult
        IN  IF left.st # "ok" THEN left
            ELSE IF right.st # "ok" THEN After(right, left.oob)
            ELSE IF IsNull(left) \/ IsNull(right) THEN After(NullResult, left.oob \/ right.oob)
            ELSE After(applied, left.oob \/ right.oob)))

evaluate_conjunction_application(node, env, stray) ==
    IF node.conjunction.type = "CONJUNCTION" /\ node.conjunction.identifier = ".*"
       /\ node.left_operand # NullNode
    THEN Bind(evaluate(node.left_operand, env, stray), LAMBDA verb :
             IF verb.st # "ok" THEN verb
             ELSE After(execute_inner_product("*", verb.v, verb.v, stray), verb.oob))
    ELSE NullResult

\* Interpreter::evaluate with the environment env
evaluate(node, env, stray) ==
    CASE node.type = "NOUN_LITERAL"            -> evaluate_noun_literal(node)
      [] node.type = "VECTOR_LITERAL"          -> evaluate_vector_literal(node)
      [] node.type = "NAME_IDENTIFIER"         -> evaluate_name_identifier(node, env)
      [] node.type = "MONADIC_APPLICATION"     -> evaluate_monadic_application(node, env, stray)
      [] node.type = "DYADIC_APPLICATION"      -> evaluate_dyadic_application(node, env, stray)
      [] node.type = "CONJUNCTION_APPLICATION" -> evaluate_conjunction_application(node, env, stray)
      [] OTHER                                 -> NullResult   \* adverb applications, trains, verbs, nullptr

\* What an out-of-bounds read of the byte before the buffer can yield: the one
\* value number() tests for, or anything else.
StrayBytes == {"_", "?"}

(***************************************************************************)
(* The lexer run one scan at a time                                        *)
(***************************************************************************)
LexAlphabet == {"<", "+", ".", "/", " ", "=", ":", "1", "a", "'", "\n"}

RECURSIVE Strings(_)
Strings(n) ==   \* all texts over LexAlphabet of length at most n
    IF n = 0 THEN {<<>>}
    ELSE LET S == Strings(n - 1)
         IN  S \cup {Append(s, c) : s \in {t \in S : Len(t) = n - 1}, c \in LexAlphabet}

ReplIdle ==
    /\ m_environment = <<>>
    /\ line = <<>>
    /\ m_current_token_idx = 0
    /\ ast = <<>>
    /\ result = <<>>
    /\ outcome = "start"
    /\ assigned = <<>>

KernIdle == kop = "none" /\ kargs = <<>> /\ kres = <<>>

GraphIdle ==
    /\ nodes_ = <<>>
    /\ gPc = "idle"
    /\ caller = "none"
    /\ inputs = <<>>
    /\ sorted_indices = <<>>
    /\ executed = 0
    /\ results = <<>>
    /\ node_id_ = -1
    /\ is_materialized_ = FALSE
    /\ materialized_value_ = <<>>
    /\ gReturned = <<>>
    /\ calls = 0

LexIdle ==
    /\ m_source = <<>>
    /\ m_current_pos = 0
    /\ m_current_line = 1
    /\ m_line_start_pos = 0
    /\ tokens = <<>>
    /\ spans = <<>>
    /\ lexPc = "done"

\* the text of a string literal with value cs: quoted, each apostrophe doubled
RECURSIVE Doubled(_)
Doubled(cs) ==
    IF cs = <<>> THEN <<>>
    ELSE (IF Head(cs) = "'" THEN <<"'", "'">> ELSE <<Head(cs)>>) \o Doubled(Tail(cs))

Quote(cs) == <<"'">> \o Doubled(cs) \o <<"'">>

\* values of string literals: one or two characters, apostrophes among them
StringValues == {<<c>> : c \in {"a", "'"}} \cup {<<c, d>> : c \in {"a", "'"}, d \in {"a", "'"}}

\* the texts handed to the lexer: every short text and the string literals
LexSources == Strings(MaxSrcLen) \cup {Quote(v) : v \in StringValues}

\* Lexer lexer(source); tokenize() up to its loop
LexInit ==
    /\ m_source \in LexSources
    /\ m_current_pos = 0
    /\ m_current_line = 1
    /\ m_line_start_pos = 0
    /\ tokens = <<>>
    /\ spans = <<>>
    /\ lexPc = "loop"
    /\ ReplIdle
    /\ KernIdle
    /\ GraphIdle

\* one iteration of the while loop of tokenize() that ends with a token
LexScan ==
    /\ lexPc = "loop"
    /\ m_current_pos < Len(m_source)
    /\ \E before \in StrayBytes :
         LET r == scan_token(m_source, m_current_pos, m_current_line, m_line_start_pos, before)
         IN  /\ r.st = "ok"
             /\ m_current_pos' = r.pos
             /\ m_current_line' = r.line
             /\ m_line_start_pos' = r.lsp
             /\ tokens' = IF Filtered(r.tok.type) THEN tokens ELSE Append(tokens, r.tok)
             /\ spans' = IF Filtered(r.tok.type) THEN spans
                         ELSE Append(spans, <<TokenStart(m_source, m_current_pos), r.pos>>)
             /\ lexPc' = "loop"
    /\ UNCHANGED <<m_source, replVars, kernVars, graphVars>>

\* an iteration in which scan_token does not return
LexAbort ==
    /\ lexPc = "loop"
    /\ m_current_pos < Len(m_source)
    /\ \E before \in StrayBytes :
         LET r == scan_token(m_source, m_current_pos, m_current_line, m_line_start_pos, before)
         IN  /\ r.st # "ok"
             /\ lexPc' = r.st
    /\ UNCHANGED <<m_source, m_current_pos, m_current_line, m_line_start_pos, tokens, spans,
                   replVars, kernVars, graphVars>>

\* the loop ends: push END_OF_FILE and return
LexFinish ==
    /\ lexPc = "loop"
    /\ m_current_pos >= Len(m_source)
    /\ tokens' = Append(tokens, EofToken(m_source, m_current_pos, m_current_line, m_line_start_pos))
    /\ spans' = Append(spans, <<m_current_pos, m_current_pos>>)
    /\ lexPc' = "done"
    /\ UNCHANGED <<m_source, m_current_pos, m_current_line, m_line_start_pos, replVars, kernVars, graphVars>>

LexNext == LexScan \/ LexAbort \/ LexFinish

SpecLex == LexInit /\ [][LexNext]_vars

(***************************************************************************)
(* Statements fed to the interpreter                                       *)
(***************************************************************************)
Sp == <<" ">>

DigitChar(n) == CHOOSE c \in Digits : DigitVal(c) = n

RECURSIVE NumText(_)
NumText(n) == IF n < 10 THEN <<DigitChar(n)>> ELSE NumText(n \div 10) \o <<DigitChar(n % 10)>>

RECURSIVE RunText(_, _)
RunText(a, b) ==    \* the vector literal "a a+1 .. b"
    IF a >= b THEN NumText(a) ELSE NumText(a) \o Sp \o RunText(a + 1, b)

ScalarTexts == {NumText(n) : n \in 0..MaxLit}
VectorTexts == {RunText(a, b) : a \in 0..MaxLit, b \in 1..MaxLit} \ ScalarTexts
OtherNouns  == {<<"2", ".", "5">>, <<"_", "3">>, <<"3", " ", "1", " ", "2">>,
                <<"'", "s", "'">>, <<"a">>}
Nouns       == ScalarTexts \cup VectorTexts \cup OtherNouns

Operands    == {NumText(1), RunText(2, 3), <<"a">>}

MonadVerbs  == {<<"+", "/">>, <<"*", "/">>, <<"#">>, <<"$">>, <<"-">>, <<"%">>}
DyadVerbs   == {<<"+">>, <<"-">>, <<"*">>, <<"%">>, <<"=">>, <<"<">>, <<"$">>}
AllDyadVerbs == DyadVerbs \cup {<<"^">>, <<",">>, <<"<", ":">>}

Names       == {"x", "y"}
AssignOps   == {<<"=", ":">>, <<"=", ".">>}
Values      == {NumText(100), NumText(5), RunText(1, 2), NumText(1) \o <<" ", "+", " ">> \o NumText(2)}

Paren(t) == <<"(">> \o t \o <<")">>

DyadsLine(x, f, y, g, z) ==
    [kind |-> "dyads", x |-> x, f |-> f, y |-> y, g |-> g, z |-> z,
     text |-> x \o Sp \o f \o Sp \o y \o Sp \o g \o Sp \o z]
MonadLine(v, e) == [kind |-> "monad", v |-> v, e |-> e, text |-> v \o Sp \o e]
ForkLine(f, g, h, y) ==
    [kind |-> "fork", f |-> f, g |-> g, h |-> h, y |-> y,
     text |-> Paren(f \o Sp \o g \o Sp \o h) \o Sp \o y]
HookLine(g, h, y) ==
    [kind |-> "hook", g |-> g, h |-> h, y |-> y, text |-> Paren(g \o Sp \o h) \o Sp \o y]
AssignLine(n, op, e) ==
    [kind |-> "assign", name |-> n, op |-> op, e |-> e, text |-> <<n>> \o Sp \o op \o Sp \o e]
NameLine(n) == [kind |-> "name", name |-> n, text |-> <<n>>]
RawLine(t)  == [kind |-> "raw", text |-> t]

DyadsLines  == {DyadsLine(x, f, y, g, z) : x \in Operands, f \in AllDyadVerbs, y \in Operands,
                                            g \in AllDyadVerbs, z \in Operands}
RightSides  == Nouns \cup {a \o Sp \o f \o Sp \o b : a \in Operands, f \in DyadVerbs, b \in Operands}
                     \cup {NumText(7) \o <<" ", "+", " ">> \o NumText(1)}
MonadLines  == {MonadLine(v, e) : v \in MonadVerbs \cup {<<"i", ".">>}, e \in RightSides}
ForkLines   == {ForkLine(f, g, h, y) : f \in MonadVerbs, g \in DyadVerbs, h \in MonadVerbs, y \in Nouns}
HookLines   == {HookLine(g, h, y) : g \in DyadVerbs, h \in MonadVerbs, y \in Nouns}
AssignLines == {AssignLine(n, op, e) : n \in Names, op \in AssignOps, e \in Values}
NameLines   == {NameLine(n) : n \in Names}
\* statements whose last verb has nothing to its right
MissingOperandTexts == {<<"1", " ", "+">>, <<"-">>, <<"+", "/">>, <<"1", " ", "+", " ", "-">>}
\* statements with a "(" that no ")" closes
UnclosedTexts       == {<<"(", "1">>, <<"(">>, <<"(", "1", " ", "+", " ", "2">>, <<"(", "(", "1", ")">>,
                        <<"1", " ", "+", " ", "(", "2">>, <<"(", "+", " ", "-">>, <<"(", "+", "/">>}
RawLines    == {RawLine(t) : t \in {<<"N", "B", ".">>, <<"1", " ">>} \cup MissingOperandTexts
                                      \cup UnclosedTexts}

\* a source text of two statements, one per line
MultiLine(first, second) ==
    [kind |-> "multi", first |-> first, second |-> second, text |-> first \o <<"\n">> \o second]
MultiLines  == {MultiLine(a, b) : a \in Nouns, b \in {<<"-">> \o Sp \o n : n \in Nouns} \cup Nouns}

Lines       == DyadsLines \cup MonadLines \cup ForkLines \cup HookLines \cup AssignLines
                   \cup NameLines \cup RawLines \cup MultiLines
ReplLines   == AssignLines \cup NameLines \cup RawLines
                   \cup {MonadLine(<<"-">>, <<n>>) : n \in Names}

(***************************************************************************)
(* One pass of the REPL body as a function of the text: tokenize, parse,   *)
(* evaluate (src/app/main.cpp, lines 33-77)                                *)
(***************************************************************************)
Stopped(how) == [st |-> how, v |-> NullValue, oob |-> FALSE]

ParseText(text) ==
    Bind(tokenize(text, "?"), LAMBDA t :
        IF t.st # "ok" THEN [st |-> t.st, node |-> NullNode] ELSE parse(t.tokens))

RunLine(text, env, stray) ==
    Bind(ParseText(text), LAMBDA p :
        IF p.st # "ok" THEN Stopped(p.st) ELSE evaluate(p.node, env, stray))

\* what an out-of-bounds read of a data vector can yield
StrayNums == {RInt(0), RInt(3)}

EmptyEnv  == [n \in {} |-> NullValue]
NoBinding == [n \in Names |-> NullValue]

(***************************************************************************)
(* The REPL (src/app/main.cpp)                                             *)
(***************************************************************************)
LexStart(text) ==
    /\ m_source = text
    /\ m_current_pos = 0
    /\ m_current_line = 1
    /\ m_line_start_pos = 0
    /\ tokens = <<>>
    /\ spans = <<>>
    /\ lexPc = "loop"

\* the interpreter is constructed and the first line is read
ReplStart(lines) ==
    /\ line \in lines
    /\ LexStart(line.text)
    /\ m_environment = EmptyEnv
    /\ m_current_token_idx = 0
    /\ ast = NullNode
    /\ result = NullValue
    /\ outcome = "start"
    /\ assigned = NoBinding
    /\ KernIdle
    /\ GraphIdle

Init     == ReplStart(Lines)
InitRepl == ReplStart(ReplLines)

\* tokens.size() == 1 && tokens[0].type == END_OF_FILE: continue
Skip ==
    /\ lexPc = "done" /\ outcome = "start" /\ line # <<>>
    /\ Len(tokens) = 1
    /\ outcome' = "skipped"
    /\ UNCHANGED <<lexVars, m_environment, line, m_current_token_idx, ast, result, assigned, kernVars, graphVars>>

\* Parser parser(tokens); parser.parse()
Parse ==
    /\ lexPc = "done" /\ outcome = "start" /\ line # <<>>
    /\ Len(tokens) > 1
    /\ \E r \in {parse(tokens)} :
           /\ ast' = r.node
           /\ m_current_token_idx' = IF r.st \in {"ok", "error"} THEN r.idx ELSE 0
           /\ outcome' = CASE r.st = "ok"    -> "parsed"
                           [] r.st = "error" -> "error"
                           [] OTHER          -> "crash"
    /\ UNCHANGED <<lexVars, m_environment, line, result, assigned, kernVars, graphVars>>

\* how the loop body ends for an evaluation result: the value is printed, the
\* exception is caught and reported, or the process dies
Shown(r) ==
    CASE r.st = "throw" -> {"error"}
      [] r.st = "crash" -> {"crash"}
      [] r.oob          -> {"undefined", "crash"}
      [] OTHER          -> {"value"}

\* j_interpreter_instance.evaluate(ast_root.get()) and the printing of the result
Evaluate ==
    /\ outcome = "parsed"
    /\ \E stray \in StrayNums :
         \E r \in {evaluate(ast, m_environment, stray)} :
             /\ result' = r.v
             /\ outcome' \in Shown(r)
             /\ assigned' = IF line.kind = "assign" /\ r.st = "ok" /\ ~r.oob /\ r.v # NullValue
                            THEN [assigned EXCEPT ![line.name] = r.v]
                            ELSE assigned
    /\ UNCHANGED <<lexVars, m_environment, line, m_current_token_idx, ast, kernVars, graphVars>>

\* the loop comes round: std::getline reads the next line
ReadLine ==
    /\ \/ outcome \in {"value", "undefined", "error", "skipped"}
       \/ lexPc = "throw"
    /\ \E l \in ReplLines :
         /\ line' = l
         /\ m_source' = l.text
    /\ m_current_pos' = 0
    /\ m_current_line' = 1
    /\ m_line_start_pos' = 0
    /\ tokens' = <<>>
    /\ spans' = <<>>
    /\ lexPc' = "loop"
    /\ m_current_token_idx' = 0
    /\ ast' = NullNode
    /\ result' = NullValue
    /\ outcome' = "start"
    /\ UNCHANGED <<m_environment, assigned, kernVars, graphVars>>

Next     == LexScan \/ LexAbort \/ LexFinish \/ Skip \/ Parse \/ Evaluate
NextRepl == Next \/ ReadLine

\* one statement through the pipeline
Spec     == Init /\ [][Next]_vars
\* a session of statements on one interpreter
SpecRepl == InitRepl /\ [][NextRepl]_vars

(***************************************************************************)
(* Properties of the parser and of the evaluator, stated on the states of  *)
(* Spec: line is the statement, ast what Parser::parse returned for it,    *)
(* result and outcome what the evaluation gave.                            *)
(***************************************************************************)
AfterParse    == line # <<>> /\ lexPc = "done" /\ outcome \notin {"start", "skipped"}
AfterEvaluate == AfterParse /\ outcome # "parsed"

\* the tree of a text standing alone as a statement
TreeOf(text) == ParseText(text).node

\* The state agrees with evaluating the statement `text` instead of the one read
SameAs(text) ==
    \E stray \in StrayNums :
        \E r \in {RunLine(text, m_environment, stray)} :
            /\ r.st \in {"ok", "throw", "crash"}
            /\ result = r.v
            /\ outcome \in Shown(r)

\* C1: for any dyadic verbs f and g the statement `x f y g z` parses as
\* DyadicApply(x, f, DyadicApply(y, g, z)): the right argument of every dyadic
\* verb is the whole remainder of the statement.
C1_RightToLeft ==
    (AfterParse /\ line.kind = "dyads") =>
        ast = DyadicApplicationNode(TreeOf(line.x), VerbNode(Join(line.f)),
                  DyadicApplicationNode(TreeOf(line.y), VerbNode(Join(line.g)), TreeOf(line.z)))

\* C2: a verb with no noun to its left, bare or derived by an adverb, is
\* applied monadically to the entire expression to its right: the statement
\* `v e` parses as MonadicApply of the verb to the tree of e.
C2_MonadicTakesAll ==
    (AfterParse /\ line.kind = "monad") =>
        /\ ast.type = "MONADIC_APPLICATION"
        /\ ast.argument = TreeOf(line.e)

ForkExpansion(l) == Paren(l.f \o Sp \o l.y) \o Sp \o l.g \o Sp \o Paren(l.h \o Sp \o l.y)
HookExpansion(l) == l.y \o Sp \o l.g \o Sp \o Paren(l.h \o Sp \o l.y)

MeanLine == ForkLine(<<"+", "/">>, <<"%">>, <<"#">>, RunText(1, 4))

C7_Hook ==
    (AfterEvaluate /\ line.kind = "hook") => SameAs(HookExpansion(line))


\* C14: a verb that has no right argument (`1 +`, a lone `-`) makes parse
\* report a parse error for the missing operand.
C14_MissingOperand ==
    (AfterParse /\ line.kind = "raw" /\ line.text \in MissingOperandTexts) =>
        (outcome = "error" /\ ast = NullNode)

\* C15: a statement containing a "(" with no matching ")" makes parse report
\* an error for the unclosed parenthesis; it never returns a tree.
C15_UnclosedParen ==
    (AfterParse /\ line.kind = "raw" /\ line.text \in UnclosedTexts) =>
        (outcome = "error" /\ ast = NullNode)

\* the node of a verb of a train: the verb, or the verb with its adverb
VerbExpr(v) ==
    IF Len(v) = 1 THEN VerbNode(v[1])
    ELSE AdverbApplicationNode(VerbNode(v[1]), AdverbNode(v[2]))

C26_ParseTerminates ==
    AfterParse => (ast # NullNode \/ outcome = "error")

\* C27: when parse returns an AST for a statement without raising an error,
\* every token of that statement is represented in the AST: apart from the
\* recovery for an unmatched `)`, which consumes that token and stops, parse
\* leaves no token but END_OF_FILE unread.
C27_NoTokenDropped ==
    (AfterParse /\ ast # NullNode)
        => \/ p_is_at_end(tokens, m_current_token_idx)
           \/ p_previous(tokens, m_current_token_idx).type = "RIGHT_PAREN"

\* the AST roots Parser::parse hands back: its return value is one AstNode
ParseResult == <<ast>>

\* C29: when the token stream holds several newline-separated statements,
\* each statement is parsed into its own AST root and none of them is
\* dropped from the parse result.
C29_EveryStatementKept ==
    (AfterParse /\ line.kind = "multi")
        => ParseResult = <<TreeOf(line.first), TreeOf(line.second)>>

(***************************************************************************)
(* Properties of a session, stated on the states of SpecRepl: assigned     *)
(* holds, for every name, the value the latest assignment statement to it  *)
(* gave.                                                                   *)
(***************************************************************************)
\* C5: evaluating a name yields the value of the most recent assignment to
\* it, and an assignment `x =: e` or `x =. e` evaluates e and returns the
\* value it binds.
C5_NameIsLatestAssignment ==
    /\ (AfterEvaluate /\ line.kind = "name" /\ assigned[line.name] # NullValue) =>
           (outcome = "value" /\ result = assigned[line.name])
    /\ (AfterEvaluate /\ line.kind = "assign") => SameAs(line.e)

(***************************************************************************)
(* Properties of the lexer, stated on the states of SpecLex: tokens is     *)
(* what tokenize() has returned for m_source once lexPc is "done".         *)
(***************************************************************************)
Tokenized == lexPc = "done" /\ m_source # <<>>

\* type and lexeme of every token but the closing END_OF_FILE
Glyphs(ts) == [i \in 1..(Len(ts) - 1) |-> <<ts[i].type, ts[i].lexeme>>]

\* the glyph sequences tokenize() can give for a text standing alone
GlyphsOf(text) ==
    {Glyphs(r.tokens) : r \in {t \in {tokenize(text, before) : before \in StrayBytes} : t.st = "ok"}}

\* no quote in the text: every blank stands between tokens, none in a string
Unquoted(text) == \A j \in 1..Len(text) : text[j] # "'"

\* C8: characters separated by whitespace never combine into one token: the
\* tokens of `A B` are the tokens of A followed by the tokens of B (so `< .`
\* is Verb("<") followed by an independent `.`).
C8_WhitespaceSeparates ==
    (Tokenized /\ Unquoted(m_source)) =>
        \A i \in 1..Len(m_source) :
            (m_source[i] = " " /\ GlyphsOf(SubSeq(m_source, 1, i - 1)) # {}) =>
                \E A \in GlyphsOf(SubSeq(m_source, 1, i - 1)) :
                    \E B \in GlyphsOf(SubSeq(m_source, i + 1, Len(m_source))) :
                        Glyphs(tokens) = A \o B

\* C9: `<./` is tokenized as exactly Verb("<") followed by Adverb("./")
\* before END_OF_FILE.
C9_LessThenDotSlash ==
    (Tokenized /\ m_source = <<"<", ".", "/">>) =>
        Glyphs(tokens) = <<<<"VERB", "<">>, <<"ADVERB", "./">>>>

DotVerbStems == {"<", "+"}

\* C10: `<.`, like each dot-suffixed verb glyph, is tokenized as a single
\* Verb token whose lexeme is the full glyph.
C10_DotSuffixedVerb ==
    \A c \in DotVerbStems :
        (Tokenized /\ m_source = <<c, ".">>) => Glyphs(tokens) = <<<<"VERB", c \o ".">>>>

\* C11: a doubled apostrophe inside a string literal does not end the
\* literal: the literal written for the value v is one string token whose
\* literal value is v, a single apostrophe standing for each doubled one.
C11_DoubledApostrophe ==
    \A v \in StringValues :
        (Tokenized /\ m_source = Quote(v)) =>
            /\ Len(tokens) = 2
            /\ tokens[1].type = "NOUN_STRING"
            /\ tokens[1].lexeme = Join(Quote(v))
            /\ tokens[1].literal_value = StrLit(v)

\* C12: for every finite source text, whatever it ends with, tokenize returns
\* a token vector ending in a single END_OF_FILE token: it neither aborts
\* nor runs forever.
C12_TokenizeReturns ==
    /\ lexPc \in {"loop", "done"}
    /\ lexPc = "done" =>
           /\ tokens # <<>>
           /\ \A i \in 1..Len(tokens) : (tokens[i].type = "END_OF_FILE") <=> (i = Len(tokens))

\* the 0-based position in src at which line number ln starts
RECURSIVE LineStart(_, _)
LineStart(src, ln) ==
    IF ln <= 1 THEN 0
    ELSE LET before == LineStart(src, ln - 1)
             breaks == {p \in (before + 1)..Len(src) : src[p] = "\n"}
         IN  IF breaks = {} THEN Len(src)
             ELSE CHOOSE p \in breaks : \A q \in breaks : p <= q

\* the characters of src at the location of token t, as many as its lexeme has
TextAt(src, t) ==
    LET first == LineStart(src, t.line) + t.col
        last  == first + Len(t.lexeme) - 1
    IN  IF first >= 1 /\ last <= Len(src) THEN Join(SubSeq(src, first, last)) ELSE "out of the source"

\* C13: for every token the lexer produces, the substring of the source that
\* starts at the token's location and has the length of its lexeme is equal
\* to the lexeme (the closing END_OF_FILE token stands for no text and is
\* left aside).
C13_LexemeAtLocation ==
    \A i \in 1..Len(tokens) :
        tokens[i].type # "END_OF_FILE" => TextAt(m_source, tokens[i]) = tokens[i].lexeme

(***************************************************************************)
(* Direct calls of the JTensor factories and the TFSession kernels         *)
(***************************************************************************)
Dims   == 0..MaxDim
Shapes == {<<>>} \cup {<<d>> : d \in Dims} \cup {<<d, e>> : d \in Dims, e \in Dims}

DTypes   == {"INT64", "FLOAT64"}
LenSlack == {-1, 0, 1}      \* how far a data vector handed to from_data may be off the shape

\* n elements counting up from start: whole numbers for INT64, halves for FLOAT64
Fill(dtype, start, n) ==
    [i \in 1..n |-> IF dtype = "INT64" THEN RInt(start + i - 1) ELSE Rat(start + i - 1, 2)]

Starts(dtype) == IF dtype = "INT64" THEN {0, 1} ELSE {1}

DataFor(dtype, shape) ==
    {Fill(dtype, s, Product(shape) + k) : s \in Starts(dtype),
                                          k \in {j \in LenSlack : Product(shape) + j >= 0}}

\* the arguments from_data is called with, and the tensors it makes of them
FromDataArgs == UNION {{<<dtype, data, shape>> : data \in DataFor(dtype, shape)} :
                           dtype \in DTypes, shape \in Shapes}
KTensors     == {from_data(c[1], c[2], c[3]) : c \in FromDataArgs}

\* arrays with a zero past their first element, of either element type
ZeroData    == {<<RInt(1), RInt(0)>>, <<Rat(1, 2), RInt(0)>>, <<RInt(2), RInt(1), RInt(0), RInt(3)>>}
ZeroTensors == {from_data(IF d[1][2] = 1 THEN "INT64" ELSE "FLOAT64", d,
                          IF Len(d) = 2 THEN <<2>> ELSE <<2, 2>>) : d \in ZeroData}
Divisors    == KTensors \cup ZeroTensors

\* the invariant of an array: as many elements as the shape announces
Consistent(t) == Len(t.data) = size(t)

\* a read out of bounds may as well end the process
Outcomes(r) == IF r.oob THEN {r, [Crashed EXCEPT !.oob = TRUE]} ELSE {r}

KernInit ==
    /\ LexIdle
    /\ ReplIdle
    /\ KernIdle
    /\ GraphIdle

KCall(op, args, r) ==
    /\ kop' = op
    /\ kargs' = args
    /\ kres' \in Outcomes(r)
    /\ UNCHANGED <<lexVars, replVars, graphVars>>

CallFromData == kop = "none" /\ \E c \in FromDataArgs : KCall("from_data", c, Ok(from_data(c[1], c[2], c[3]), FALSE))
CallScalar   == kop = "none" /\ \E dtype \in DTypes : \E s \in Starts(dtype) :
                    KCall("scalar", <<dtype, Fill(dtype, s, 1)[1]>>,
                          Ok(IF dtype = "INT64" THEN scalar_int(Fill(dtype, s, 1)[1])
                             ELSE scalar_float(Fill(dtype, s, 1)[1]), FALSE))
CallIota     == kop = "none" /\ \E n \in -1..MaxDim : KCall("iota", <<n>>, iota(n))

CallAdd      == kop = "none" /\ \E a \in KTensors, b \in KTensors, stray \in StrayNums :
                    KCall("add", <<a, b>>, add(a, b, stray))
CallSubtract == kop = "none" /\ \E a \in KTensors, b \in KTensors, stray \in StrayNums :
                    KCall("subtract", <<a, b>>, subtract(a, b, stray))
CallMultiply == kop = "none" /\ \E a \in KTensors, b \in KTensors, stray \in StrayNums :
                    KCall("multiply", <<a, b>>, multiply(a, b, stray))
CallDivide   == kop = "none" /\ \E a \in KTensors, b \in Divisors, stray \in StrayNums :
                    KCall("divide", <<a, b>>, divide(a, b, stray))
\* exponents are taken from the INT64 tensors: whole and not negative
CallPower    == kop = "none" /\ \E a \in KTensors, b \in {t \in KTensors : t.dtype = "INT64"}, stray \in StrayNums :
                    KCall("power", <<a, b>>, power(a, b, stray))

CallEqual        == kop = "none" /\ \E a \in KTensors, b \in KTensors, stray \in StrayNums :
                        KCall("equal", <<a, b>>, equal(a, b, stray))
CallLessThan     == kop = "none" /\ \E a \in KTensors, b \in KTensors, stray \in StrayNums :
                        KCall("less_than", <<a, b>>, less_than(a, b, stray))
CallGreaterThan  == kop = "none" /\ \E a \in KTensors, b \in KTensors, stray \in StrayNums :
                        KCall("greater_than", <<a, b>>, greater_than(a, b, stray))
CallLessEqual    == kop = "none" /\ \E a \in KTensors, b \in KTensors, stray \in StrayNums :
                        KCall("less_equal", <<a, b>>, less_equal(a, b, stray))
CallGreaterEqual == kop = "none" /\ \E a \in KTensors, b \in KTensors, stray \in StrayNums :
                        KCall("greater_equal", <<a, b>>, greater_equal(a, b, stray))

CallNegate     == kop = "none" /\ \E t \in KTensors : KCall("negate", <<t>>, negate(t))
CallSquare     == kop = "none" /\ \E t \in KTensors : KCall("square", <<t>>, square(t))
CallReciprocal == kop = "none" /\ \E t \in Divisors : KCall("reciprocal", <<t>>, reciprocal(t))

CallReduceSum     == kop = "none" /\ \E t \in KTensors : KCall("reduce_sum", <<t>>, reduce_sum(t))
CallReduceProduct == kop = "none" /\ \E t \in KTensors : KCall("reduce_product", <<t>>, reduce_product(t))
CallReduceMin     == kop = "none" /\ \E t \in KTensors : KCall("reduce_min", <<t>>, reduce_min(t))
CallReduceMax     == kop = "none" /\ \E t \in KTensors : KCall("reduce_max", <<t>>, reduce_max(t))
CallReduceMean    == kop = "none" /\ \E t \in KTensors : KCall("reduce_mean", <<t>>, reduce_mean(t))

CallReshape   == kop = "none" /\ \E t \in KTensors, new_shape \in Shapes \cup {<<-1>>}, stray \in StrayNums :
                     KCall("reshape", <<t, new_shape>>, reshape(t, new_shape, stray))
CallTranspose == kop = "none" /\ \E t \in KTensors : KCall("transpose", <<t>>, transpose(t))

CallConcatenate    == kop = "none" /\ \E a \in KTensors, b \in KTensors :
                          KCall("concatenate", <<a, b>>, concatenate(a, b))
CallMatrixMultiply == kop = "none" /\ \E a \in KTensors, b \in KTensors, stray \in StrayNums :
                          KCall("matrix_multiply", <<a, b>>, matrix_multiply(a, b, stray))

\* Interpreter::execute_fold, called with the verb of an f/ and its operand;
\* the JValue it returns is kept as the t of kres, a JValue that holds
\* nullptr as st = "null"
FoldVerbs == {"+", "*", "<", ">", "-"}

CallExecuteFold ==
    kop = "none" /\ \E verb_name \in FoldVerbs, operand \in KTensors :
        \E r \in {execute_fold(verb_name, operand)} :
            KCall("execute_fold", <<verb_name, operand>>,
                  [st |-> IF IsNull(r) THEN "null" ELSE r.st, t |-> r.v, oob |-> r.oob])

\* the JValue an Interpreter function returns, kept as kres
Returned(r) == [st |-> IF IsNull(r) THEN "null" ELSE r.st, t |-> r.v, oob |-> r.oob]

\* the left arguments of s $ data: a scalar, or a vector of one or two
\* dimensions, each dimension positive
ShapeArgs ==
    {scalar_int(RInt(d)) : d \in 1..MaxDim}
        \cup {from_data("INT64", <<RInt(d)>>, <<1>>) : d \in 1..MaxDim}
        \cup {from_data("INT64", <<RInt(d), RInt(e)>>, <<2>>) : d \in 1..MaxDim, e \in 1..MaxDim}

CallJReshape ==
    kop = "none" /\ \E shape \in ShapeArgs, data \in KTensors, stray \in StrayNums :
        \E r \in {j_reshape(shape, data, stray)} :
            KCall("j_reshape", <<shape, data>>, Returned(r))

\* Interpreter::execute_inner_product, called with the right verb of
\* x (f . g) y and the two operands
InnerVerbs == {"*", "+"}

CallInnerProduct ==
    kop = "none" /\ \E verb_name \in InnerVerbs, left \in KTensors, right \in KTensors, stray \in StrayNums :
        \E r \in {execute_inner_product(verb_name, left, right, stray)} :
            KCall("execute_inner_product", <<verb_name, left, right>>, Returned(r))

KernNext ==
    \/ CallExecuteFold \/ CallJReshape \/ CallInnerProduct
    \/ CallFromData \/ CallScalar \/ CallIota
    \/ CallAdd \/ CallSubtract \/ CallMultiply \/ CallDivide \/ CallPower
    \/ CallEqual \/ CallLessThan \/ CallGreaterThan \/ CallLessEqual \/ CallGreaterEqual
    \/ CallNegate \/ CallSquare \/ CallReciprocal
    \/ CallReduceSum \/ CallReduceProduct \/ CallReduceMin \/ CallReduceMax \/ CallReduceMean
    \/ CallReshape \/ CallTranspose \/ CallConcatenate \/ CallMatrixMultiply

SpecKernel == KernInit /\ [][KernNext]_vars

(***************************************************************************)
(* TFGraph and DeferredTensor (src/src/interpreter/tf_graph.cpp), in the   *)
(* build without the TensorFlow C++ API: TFGraph::execute runs the nodes   *)
(* eagerly in topological order.  A node id "node_i" is written i; the     *)
(* node with id i sits at index i of nodes_ (node_map_).                   *)
(***************************************************************************)
GraphNode(id, op_type, input_ids, tensor_data) ==
    [id |-> id, op_type |-> op_type, input_ids |-> input_ids, tensor_data |-> tensor_data]

\* the ids of the nodes of a graph
NodeIds(nodes) == 0..(Len(nodes) - 1)

\* TFGraph::add_input, add_constant, add_operation: the nodes_ afterwards
add_input(nodes) == Append(nodes, GraphNode(Len(nodes), "INPUT", <<>>, NullValue))
add_constant(nodes, tensor) == Append(nodes, GraphNode(Len(nodes), "CONSTANT", <<>>, tensor))
add_operation(nodes, op_type, input_ids) ==
    Append(nodes, GraphNode(Len(nodes), op_type, input_ids, NullValue))

\* how many times a node names id as an input
InputCount(node, id) == Cardinality({k \in DOMAIN node.input_ids : node.input_ids[k] = id})

\* the loop of Kahn's algorithm in TFGraph::topological_sort; indices are
\* 0-based as in the code, in_degree[i + 1] belongs to index i
RECURSIVE kahn(_, _, _, _)
kahn(nodes, in_degree, zero_in_degree, sorted) ==
    IF zero_in_degree = <<>> THEN sorted
    ELSE LET current == Head(zero_in_degree)
             lowered == [i \in 1..Len(nodes) |-> in_degree[i] - InputCount(nodes[i], current)]
             pushed  == SelectSeq([i \in 1..Len(nodes) |-> i - 1],
                                  LAMBDA i : InputCount(nodes[i + 1], current) > 0 /\ lowered[i + 1] = 0)
         IN  kahn(nodes, lowered, Tail(zero_in_degree) \o pushed, Append(sorted, current))

\* TFGraph::topological_sort: the sorted_indices it fills
topological_sort(nodes) ==
    LET in_degree == [i \in 1..Len(nodes) |->
                         Cardinality({k \in DOMAIN nodes[i].input_ids :
                                         nodes[i].input_ids[k] \in NodeIds(nodes)})]
        zero_in_degree == SelectSeq([i \in 1..Len(nodes) |-> i - 1], LAMBDA i : in_degree[i + 1] = 0)
    IN  kahn(nodes, in_degree, zero_in_degree, <<>>)

BinaryGraphOps == {"ADD", "SUBTRACT", "MULTIPLY", "DIVIDE"}
UnaryGraphOps  == {"REDUCE_SUM", "REDUCE_MIN", "REDUCE_MAX", "REDUCE_MEAN", "TALLY"}

\* the kernel a node of TFGraph::execute_node calls on the results of its
\* inputs; every TFSession kernel gives nullptr for a nullptr operand, and
\* the TALLY case dereferences its input unchecked
graph_kernel(op_type, operands, stray) ==
    IF op_type = "TALLY"
    THEN IF operands[1] = NullValue THEN Crashed
         ELSE Ok(scalar_int(RInt(IF rank(operands[1]) = 0 THEN 1 ELSE operands[1].shape[1])), FALSE)
    ELSE IF \E k \in DOMAIN operands : operands[k] = NullValue THEN Nil
    ELSE CASE op_type = "ADD"         -> add(operands[1], operands[2], stray)
           [] op_type = "SUBTRACT"    -> subtract(operands[1], operands[2], stray)
           [] op_type = "MULTIPLY"    -> multiply(operands[1], operands[2], stray)
           [] op_type = "DIVIDE"      -> divide(operands[1], operands[2], stray)
           [] op_type = "REDUCE_SUM"  -> reduce_sum(operands[1])
           [] op_type = "REDUCE_MIN"  -> reduce_min(operands[1])
           [] op_type = "REDUCE_MAX"  -> reduce_max(operands[1])
           [] op_type = "REDUCE_MEAN" -> reduce_mean(operands[1])

\* results[id] = value on a std::unordered_map
MapPut(map, id, value) == [k \in DOMAIN map \cup {id} |-> IF k = id THEN value ELSE map[k]]

\* TFGraph::execute_node: [st, results, oob]; node_results.at(id) throws
\* std::out_of_range for an id without entry
execute_node(node, node_results, stray) ==
    LET arity == IF node.op_type \in BinaryGraphOps THEN 2 ELSE 1
        same  == [st |-> "ok", results |-> node_results, oob |-> FALSE]
    IN  IF node.op_type = "INPUT" THEN same
        ELSE IF node.op_type = "CONSTANT" THEN [same EXCEPT !.results = MapPut(node_results, node.id, node.tensor_data)]
        ELSE IF node.op_type \notin BinaryGraphOps \cup UnaryGraphOps THEN same
        ELSE IF Len(node.input_ids) < arity THEN same
        ELSE IF \E k \in 1..arity : node.input_ids[k] \notin DOMAIN node_results
        THEN [same EXCEPT !.st = "throw"]
        ELSE Bind(graph_kernel(node.op_type, [k \in 1..arity |-> node_results[node.input_ids[k]]], stray),
                  LAMBDA r :
                      IF r.st \in {"ok", "null"}
                      THEN [st |-> "ok", results |-> MapPut(node_results, node.id, r.t), oob |-> r.oob]
                      ELSE [st |-> r.st, results |-> node_results, oob |-> r.oob])

(***************************************************************************)
(* A graph is built, then executed and materialized                        *)
(***************************************************************************)
MaxNodes == 3       \* most nodes a graph is given
MaxCalls == 2       \* most calls of execute and materialize on one graph

EmptyMap == [k \in {} |-> NullValue]

\* the tensors given to add_constant, and those fed to INPUT nodes
GraphConstants   == {scalar_int(RInt(2)), from_data("INT64", <<RInt(1), RInt(2), RInt(3)>>, <<3>>)}
GraphInputValues == {from_data("INT64", <<RInt(1), RInt(2)>>, <<2>>),
                     from_data("INT64", <<RInt(3), RInt(4)>>, <<2>>)}

\* the operations handed to add_operation; REDUCE_PRODUCT is a GraphOpType
\* that execute_node has no case for
BuildOps == {"ADD", "DIVIDE", "REDUCE_SUM", "TALLY", "REDUCE_PRODUCT"}

\* the input lists handed to add_operation name nodes added before, as the
\* DeferredTensor operations do
InputLists(nodes, op_type) ==
    IF op_type \in BinaryGraphOps
    THEN {<<a, b>> : a \in NodeIds(nodes), b \in NodeIds(nodes)}
    ELSE {<<a>> : a \in NodeIds(nodes)}

\* the input maps handed to execute and materialize: a tensor for some of
\* the INPUT nodes
InputNodes(nodes) == {i \in NodeIds(nodes) : nodes[i + 1].op_type = "INPUT"}
InputMaps(nodes)  == UNION {[fed -> GraphInputValues] : fed \in SUBSET InputNodes(nodes)}

GraphInit ==
    /\ LexIdle
    /\ ReplIdle
    /\ KernIdle
    /\ nodes_ = <<>>
    /\ gPc = "build"
    /\ caller = "none"
    /\ inputs = EmptyMap
    /\ sorted_indices = <<>>
    /\ executed = 0
    /\ results = EmptyMap
    /\ node_id_ = -1
    /\ is_materialized_ = FALSE
    /\ materialized_value_ = NullValue
    /\ gReturned = NullValue
    /\ calls = 0

GraphKeeps == UNCHANGED <<lexVars, replVars, kernVars>>
CallKeeps  == UNCHANGED <<caller, inputs, sorted_indices, executed, results, node_id_,
                          is_materialized_, materialized_value_, gReturned, calls>>

AddInput ==
    /\ gPc = "build" /\ Len(nodes_) < MaxNodes
    /\ nodes_' = add_input(nodes_)
    /\ UNCHANGED gPc /\ CallKeeps /\ GraphKeeps

AddConstant ==
    /\ gPc = "build" /\ Len(nodes_) < MaxNodes
    /\ \E tensor \in GraphConstants : nodes_' = add_constant(nodes_, tensor)
    /\ UNCHANGED gPc /\ CallKeeps /\ GraphKeeps

AddOperation ==
    /\ gPc = "build" /\ Len(nodes_) < MaxNodes
    /\ \E op_type \in BuildOps : \E input_ids \in InputLists(nodes_, op_type) :
           nodes_' = add_operation(nodes_, op_type, input_ids)
    /\ UNCHANGED gPc /\ CallKeeps /\ GraphKeeps

\* the first lines of TFGraph::execute: results = inputs, topological_sort
StartExecute(who, input_map) ==
    /\ gPc' = "execute"
    /\ caller' = who
    /\ inputs' = input_map
    /\ results' = input_map
    /\ sorted_indices' = topological_sort(nodes_)
    /\ executed' = 0
    /\ calls' = calls + 1

\* graph->execute(tf_session, inputs), called by the user
Execute ==
    /\ gPc \in {"build", "returned"} /\ calls < MaxCalls
    /\ \E input_map \in InputMaps(nodes_) : StartExecute("execute", input_map)
    /\ UNCHANGED <<nodes_, node_id_, is_materialized_, materialized_value_, gReturned>>
    /\ GraphKeeps

\* DeferredTensor::materialize up to its call of graph_->execute: the cached
\* value is returned if there is one
Materialize ==
    /\ gPc \in {"build", "returned"} /\ calls < MaxCalls
    /\ nodes_ # <<>>
    /\ \E id \in (IF node_id_ = -1 THEN NodeIds(nodes_) ELSE {node_id_}) :
         \E input_map \in InputMaps(nodes_) :
           /\ node_id_' = id
           /\ IF is_materialized_
              THEN /\ gReturned' = materialized_value_
                   /\ gPc' = "returned"
                   /\ caller' = "materialize"
                   /\ inputs' = input_map
                   /\ calls' = calls + 1
                   /\ UNCHANGED <<sorted_indices, executed, results>>
              ELSE /\ StartExecute("materialize", input_map)
                   /\ UNCHANGED gReturned
    /\ UNCHANGED <<nodes_, is_materialized_, materialized_value_>>
    /\ GraphKeeps

\* one round of the loop of TFGraph::execute
ExecuteNode ==
    /\ gPc = "execute" /\ executed < Len(sorted_indices)
    /\ \E stray \in StrayNums :
         \E r \in {execute_node(nodes_[sorted_indices[executed + 1] + 1], results, stray)} :
           \E died \in (IF r.oob THEN {TRUE, FALSE} ELSE {FALSE}) :
             /\ gPc' = CASE died \/ r.st = "crash" -> "crashed"
                         [] r.st = "throw"         -> "threw"
                         [] OTHER                  -> "execute"
             /\ results' = r.results
             /\ executed' = IF ~died /\ r.st = "ok" THEN executed + 1 ELSE executed
    /\ UNCHANGED <<nodes_, caller, inputs, sorted_indices, node_id_, is_materialized_,
                   materialized_value_, gReturned, calls>>
    /\ GraphKeeps

\* TFGraph::execute returns results; DeferredTensor::materialize looks its
\* node up in them
ExecuteReturn ==
    /\ gPc = "execute" /\ executed = Len(sorted_indices)
    /\ gPc' = "returned"
    /\ IF caller = "materialize" /\ node_id_ \in DOMAIN results
       THEN /\ materialized_value_' = results[node_id_]
            /\ is_materialized_' = TRUE
            /\ gReturned' = results[node_id_]
       ELSE /\ gReturned' = IF caller = "materialize" THEN NullValue ELSE gReturned
            /\ UNCHANGED <<materialized_value_, is_materialized_>>
    /\ UNCHANGED <<nodes_, caller, inputs, sorted_indices, executed, results, node_id_, calls>>
    /\ GraphKeeps

GraphNext ==
    \/ AddInput \/ AddConstant \/ AddOperation
    \/ Execute \/ Materialize \/ ExecuteNode \/ ExecuteReturn

SpecGraph == GraphInit /\ [][GraphNext]_vars

(***************************************************************************)
(* Properties of the factories and kernels, stated on the states of        *)
(* SpecKernel: kop is the function called, kargs its arguments, kres what  *)
(* it returned.                                                            *)
(***************************************************************************)
ElementWise == {"add", "subtract", "multiply", "divide", "power",
                "equal", "less_than", "greater_than", "less_equal", "greater_equal"}
TwoTensors  == ElementWise \cup {"concatenate", "matrix_multiply"}
OneTensor   == {"negate", "square", "reciprocal", "reduce_sum", "reduce_product", "reduce_min",
                "reduce_max", "reduce_mean", "reshape", "transpose"}

\* the arrays handed to the call
TensorArgs == CASE kop \in TwoTensors -> {kargs[1], kargs[2]}
                [] kop \in OneTensor  -> {kargs[1]}
                [] OTHER              -> {}

\* C3: every array returned by a factory or a kernel has as many data
\* elements as the product of its shape.
C3_SizeMatchesShape ==
    (kop # "none" /\ kres.st = "ok" /\ \A t \in TensorArgs : Consistent(t)) => Consistent(kres.t)

\* C4: every dyadic element-wise kernel, arithmetic or comparison, given two
\* non-scalar operands of differing shapes fails with a shape mismatch
\* instead of returning an array.  Calls that read out of bounds are left
\* aside: what is required here is required of the defined executions.
C4_ShapeMismatchFails ==
    (/\ kop \in ElementWise
     /\ \A t \in TensorArgs : Consistent(t) /\ rank(t) > 0
     /\ kargs[1].shape # kargs[2].shape
     /\ ~kres.oob) => kres.st = "null"

\* the shape C17 requires of the result: the operands' shape when they agree,
\* the other operand's shape when one operand is a rank-0 scalar
ExpectedShapes ==
    {s \in {kargs[1].shape, kargs[2].shape} :
        \/ kargs[1].shape = kargs[2].shape
        \/ rank(kargs[1]) = 0 /\ s = kargs[2].shape
        \/ rank(kargs[2]) = 0 /\ s = kargs[1].shape}

\* a dyadic element-wise kernel has returned an array for two well-formed
\* operands, reading nothing out of bounds
ElementWiseReturned ==
    /\ kop \in ElementWise
    /\ \A t \in TensorArgs : Consistent(t)
    /\ kres.st = "ok"
    /\ ~kres.oob

\* C17: the result of a dyadic element-wise kernel has the shape of its
\* operands when their shapes are equal, and exactly the shape of the other
\* operand when one operand is a rank-0 scalar.
C17_ResultShape ==
    ElementWiseReturned => \A s \in ExpectedShapes : kres.t.shape = s

HasZero(t) == \E i \in 1..Len(t.data) : t.data[i][1] = 0

\* a division was asked for whose divisor, a well-formed array, holds a zero
DividesByZero ==
    \/ kop = "divide" /\ Consistent(kargs[1]) /\ Consistent(kargs[2]) /\ HasZero(kargs[2])
    \/ kop = "reciprocal" /\ Consistent(kargs[1]) /\ HasZero(kargs[1])

\* C18: dividing by an operand that contains a zero anywhere, or taking the
\* reciprocal of an array that contains a zero, yields an error (the kernel
\* reports "Division by zero" and returns nullptr) and no result array.
C18_DivisionByZero ==
    DividesByZero => (kres.st = "null" /\ kres.t = NullValue /\ ~kres.oob)

\* a vector is divided by a vector whose zero is not its first element, and
\* the reciprocal of such a vector is asked for
C18_Witness ==
    /\ DividesByZero
    /\ kop = "divide"
    /\ rank(kargs[1]) = 1
    /\ kargs[2].shape = <<2>>
    /\ kargs[2].data[1][1] # 0
    /\ kargs[2].data[2][1] = 0
    /\ kres.st = "null"

\* f/ y was evaluated, for a verb f that execute_fold implements and a
\* well-formed array y
Folded ==
    /\ kop = "execute_fold"
    /\ kargs[1] \in {"+", "*", "<", ">"}
    /\ Consistent(kargs[2])

\* C19: f/ y folds f between the items along the leading axis of y, so the
\* result has rank rank(y) - 1: reducing a rank-2 table gives a rank-1 vector
\* and not a scalar.
C19_FoldRank ==
    (Folded /\ rank(kargs[2]) >= 1)
        => (is_tensor_value(kres.t) /\ rank(kres.t) = rank(kargs[2]) - 1)

\* C20: reducing an empty array gives 0 for + and 1 for *, and for every
\* other supported verb (<, >) gives an error rather than a value.
C20_EmptyReduce ==
    (Folded /\ kargs[2].data = <<>>)
        => CASE kargs[1] = "+" -> is_tensor_value(kres.t) /\ kres.t.data = <<RInt(0)>>
             [] kargs[1] = "*" -> is_tensor_value(kres.t) /\ kres.t.data = <<RInt(1)>>
             [] OTHER          -> ~is_tensor_value(kres.t)

\* the dimensions a shape argument s spells out
DimsOf(s) == [i \in 1..Len(s.data) |-> s.data[i][1]]

\* s $ data was evaluated for a non-empty well-formed array data
Reshaped ==
    /\ kop = "j_reshape"
    /\ Consistent(kargs[2])
    /\ kargs[2].data # <<>>

\* C21: reshape round-trips its shape argument: for every shape vector s
\* with product(s) > 0 and every non-empty data array, the shape of
\* s $ data is exactly s.
C21_ReshapeRoundTrip ==
    (Reshaped /\ Product(DimsOf(kargs[1])) > 0)
        => (kres.st = "ok" /\ kres.t.shape = DimsOf(kargs[1]))

\* the leading dimension of an array, a scalar counting as 1
LeadingDim(t) == IF rank(t) = 0 THEN 1 ELSE t.shape[1]

\* the shape of the items of an array: its shape without the leading dimension
ItemShape(t) == IF rank(t) = 0 THEN <<>> ELSE Tail(t.shape)

\* a , b was computed for two well-formed arrays whose items agree in shape,
\* a scalar being an item of a vector
Appended ==
    /\ kop = "concatenate"
    /\ Consistent(kargs[1])
    /\ Consistent(kargs[2])
    /\ \/ rank(kargs[1]) <= 1 /\ rank(kargs[2]) <= 1
       \/ ItemShape(kargs[1]) = ItemShape(kargs[2])

\* C22: append a , b returns an array of rank max(1, rank(a), rank(b)) whose
\* leading dimension is the sum of the operands' leading dimensions, a scalar
\* counting as 1: appending two 2x3 tables gives a 4x3 table.
C22_AppendShape ==
    Appended => /\ kres.st = "ok"
                /\ rank(kres.t) = Max(1, Max(rank(kargs[1]), rank(kargs[2])))
                /\ kres.t.shape[1] = LeadingDim(kargs[1]) + LeadingDim(kargs[2])

\* sum over k of x[k] * y[k]
RECURSIVE SumOfProducts(_, _)
SumOfProducts(x, y) ==
    IF x = <<>> THEN RInt(0) ELSE RAdd(RMul(Head(x), Head(y)), SumOfProducts(Tail(x), Tail(y)))

\* row i and column j of a table kept row by row
Row(t, i)    == [k \in 1..t.shape[2] |-> t.data[(i - 1) * t.shape[2] + k]]
Column(t, j) == [k \in 1..t.shape[1] |-> t.data[(k - 1) * t.shape[2] + j]]

\* the matrix product of two tables, row by row
MatrixProduct(a, b) ==
    [n \in 1..(a.shape[1] * b.shape[2]) |->
        SumOfProducts(Row(a, ((n - 1) \div b.shape[2]) + 1), Column(b, ((n - 1) % b.shape[2]) + 1))]

\* x (+ . *) y was evaluated for two well-formed arrays
InnerProduct ==
    /\ kop = "execute_inner_product"
    /\ kargs[1] = "*"
    /\ Consistent(kargs[2])
    /\ Consistent(kargs[3])

\* C23: the inner product x (+ . *) y returns the scalar dot product when
\* both operands are rank 1 of equal length, and the matrix product when both
\* operands are rank 2 with agreeing inner dimensions.
C23_InnerProduct ==
    /\ (InnerProduct /\ rank(kargs[2]) = 1 /\ rank(kargs[3]) = 1 /\ kargs[2].shape = kargs[3].shape)
           => /\ kres.st = "ok"
              /\ kres.t.shape = <<>>
              /\ kres.t.data = <<SumOfProducts(kargs[2].data, kargs[3].data)>>
    /\ (InnerProduct /\ rank(kargs[2]) = 2 /\ rank(kargs[3]) = 2 /\ kargs[2].shape[2] = kargs[3].shape[1])
           => /\ kres.st = "ok"
              /\ kres.t.shape = <<kargs[2].shape[1], kargs[3].shape[2]>>
              /\ kres.t.data = MatrixProduct(kargs[2], kargs[3])

\* C24: constructing an array from flat data and a shape whose product
\* differs from the data length fails; no array is returned.  (An empty
\* shape asks from_data to infer the shape and is left aside.)
C24_FromDataRejectsMismatch ==
    (kop = "from_data" /\ kargs[3] # <<>> /\ Product(kargs[3]) # Len(kargs[2]))
        => kres.st # "ok"

\* C28: no kernel reads or writes an element index outside its operands' or
\* result's data buffer, for any combination of operand shapes, empty arrays
\* and operands of unequal length included.
C28_NoOutOfBounds ==
    (kop \in TwoTensors \cup OneTensor /\ \A t \in TensorArgs : Consistent(t)) => ~kres.oob

(***************************************************************************)
(* Properties of TFGraph::execute and DeferredTensor::materialize, stated  *)
(* on the states of SpecGraph.                                             *)
(***************************************************************************)
IsOperation(node) == node.op_type \notin {"INPUT", "CONSTANT"}

\* a call of TFGraph::execute by the user that fed every INPUT node
FedExecute == caller = "execute" /\ DOMAIN inputs = InputNodes(nodes_)

\* a result was stored for a node only when each input it names had one
ComputedAfterInputs ==
    \A i \in NodeIds(nodes_) :
        (gPc # "build" /\ IsOperation(nodes_[i + 1]) /\ i \in DOMAIN results)
            => \A k \in DOMAIN nodes_[i + 1].input_ids : nodes_[i + 1].input_ids[k] \in DOMAIN results

\* the call has come to its end: it returned, threw or crashed
ExecuteEnded == gPc \in {"returned", "threw", "crashed"}

\* C25: TFGraph::execute computes a node only after every node it names as
\* an input has a result, and a call that was fed every INPUT node returns
\* a map with a result for every node of the graph, intermediates included.
C25_ExecuteEveryNode ==
    /\ ComputedAfterInputs
    /\ (FedExecute /\ ExecuteEnded) => (gPc = "returned" /\ NodeIds(nodes_) \subseteq DOMAIN results)

\* the value a node has under an input map: that of an INPUT node is the
\* tensor fed to it, that of a CONSTANT its tensor, that of an operation
\* its kernel applied to the values of its inputs; NullValue where there is
\* none (an INPUT that is not fed, a kernel that gives no tensor)
RECURSIVE NodeValue(_, _, _)
NodeValue(nodes, id, input_map) ==
    LET node == nodes[id + 1]
        arity == IF node.op_type \in BinaryGraphOps THEN 2 ELSE 1
    IN  CASE node.op_type = "INPUT"    -> IF id \in DOMAIN input_map THEN input_map[id] ELSE NullValue
          [] node.op_type = "CONSTANT" -> node.tensor_data
          [] node.op_type \in BinaryGraphOps \cup UnaryGraphOps ->
                Bind([k \in 1..arity |-> NodeValue(nodes, node.input_ids[k], input_map)],
                     LAMBDA operands :
                         IF \E k \in 1..arity : operands[k] = NullValue THEN NullValue
                         ELSE Bind(graph_kernel(node.op_type, operands, RInt(0)),
                                   LAMBDA r : IF r.st = "ok" /\ ~r.oob THEN r.t ELSE NullValue))
          [] OTHER -> NullValue

\* a call of DeferredTensor::materialize has returned
Materialized == caller = "materialize" /\ gPc = "returned"

\* C30: every call of DeferredTensor::materialize returns the value its
\* node has under the inputs passed to that call, a later call on the same
\* deferred tensor with other inputs included.
C30_MaterializeUnderInputs ==
    (Materialized /\ NodeValue(nodes_, node_id_, inputs) # NullValue)
        => gReturned = NodeValue(nodes_, node_id_, inputs)

====
